---- MODULE Spec2Model ----
(***************************************************************************)
(* Detection orchestration and motion gating of the SpatialNVR detection   *)
(* service: MotionDetector (motion_detection/detector.py), DetectionService *)
(* (service.py), the model lists of the inference backends                 *)
(* (backends/*.py) and the post-processing they share (backends/base.py).  *)
(*                                                                         *)
(* Rasters are one-row grayscale images, written as sequences of pixel     *)
(* values; <<>> is an empty raster, on which OpenCV raises.  Fractions     *)
(* (threshold) are in percent, times are in milliseconds.                  *)
(***************************************************************************)
EXTENDS Integers, Sequences, FiniteSets, TLC

VARIABLES
    config,             \* MotionDetector.config (MotionConfig)
    prev_frames,        \* MotionDetector._prev_frames, NoFrame = key absent
    bg_subtractors,     \* MotionDetector._bg_subtractors, NoModel = key absent
    last_motion_times,  \* MotionDetector._last_motion_times, 0 = key absent
    mstats,             \* MotionDetector.stats (MotionStats)
    detectors,          \* DetectionService.detectors: the registered backends
    default_backend,    \* DetectionService.default_backend
    models,             \* per backend: the ids of its model_info dict
    sessions,           \* per backend: the ids of its sessions dict
    stats,              \* DetectionService.stats (ServiceStats)
    now,                \* time.time(), in ms
    last,               \* the last completed call and what it did and returned
    nops,               \* number of calls made so far
    evals,              \* per camera: the last evaluate call made for it
    th,                 \* the worker threads of the gRPC server
    post                \* the last post-processing call: its input and result

vars == <<config, prev_frames, bg_subtractors, last_motion_times, mstats,
          detectors, default_backend, models, sessions, stats, now, last, nops,
          evals, th, post>>

gateVars == <<config, prev_frames, bg_subtractors, last_motion_times, mstats>>
registryVars == <<detectors, default_backend, models, sessions, post>>

----------------------------------------------------------------------------
(* Bounds of the model *)

\* calls explored in one behaviour of the service
MaxOps == 3
\* calls explored in one behaviour of the motion gate alone
MaxGateOps == 3
\* calls explored in one behaviour of the model lists alone
MaxRegistryOps == 3
\* calls each worker thread makes in one behaviour
MaxThreadCalls == 2
\* clock ticks explored in one behaviour
MaxTicks == 2

(* Program constants *)

DefaultThresholdPct == 2
DefaultPixelThreshold == 25
DefaultBlurSize == 5
DefaultCooldownMs == 100
DefaultMinAreaPermille == 1
Mog2VarThreshold == 16
Mog2InitialVariance == 15
KnnDist2Threshold == 400
ForegroundValue == 255

\* the clock when the service is constructed (time.time() counts from 1970)
StartTime == 100000
\* the interval between two observations of the clock
TickMs == 50

Cameras == {"camA", "camB"}

NoFrame == <<-1>>
NoModel == [kind |-> "none", bg |-> NoFrame, obj |-> 0]

\* the frames submitted: an empty raster, a 1x1 raster and two 2x1 rasters
Frames == {<<>>, <<0>>, <<0, 0>>, <<0, 200>>}

Methods == {"frame_diff", "mog2", "knn"}

Abs(a) == IF a >= 0 THEN a ELSE -a

----------------------------------------------------------------------------
(* MotionDetector: preprocessing *)

\* cv2's BORDER_REFLECT_101 index into a row of n pixels (1-based)
RECURSIVE Reflect101(_, _)
Reflect101(p, n) ==
    IF n = 1 THEN 1
    ELSE IF p < 1 THEN Reflect101(2 - p, n)
    ELSE IF p > n THEN Reflect101(2 * n - p, n)
    ELSE p

\* cv2.GaussianBlur(gray, (5, 5), 0) on a one-row raster: kernel 1 4 6 4 1 / 16
GaussianBlur(px) ==
    LET n == Len(px)
        w == <<1, 4, 6, 4, 1>>
        at(i, k) == px[Reflect101(i + k - 3, n)]
    IN  [i \in 1..n |->
            (w[1] * at(i, 1) + w[2] * at(i, 2) + w[3] * at(i, 3)
             + w[4] * at(i, 4) + w[5] * at(i, 5) + 8) \div 16]

\* MotionDetector._preprocess: the image is already grayscale; blur when
\* blur_size > 0 (OpenCV raises on an empty raster); no mask is configured
Preprocess(image) ==
    IF config.blur_size > 0
    THEN IF Len(image) = 0
         THEN [raised |-> TRUE, gray |-> image]
         ELSE [raised |-> FALSE, gray |-> GaussianBlur(image)]
    ELSE [raised |-> FALSE, gray |-> image]

----------------------------------------------------------------------------
(* MotionDetector: region extraction *)

\* the maximal runs of foreground pixels of a one-row mask, as <<first, length>>
Runs(mask) ==
    {r \in (1..Len(mask)) \X (1..Len(mask)) :
        /\ r[1] + r[2] - 1 <= Len(mask)
        /\ \A i \in r[1]..(r[1] + r[2] - 1) : mask[i] # 0
        /\ (r[1] > 1 => mask[r[1] - 1] = 0)
        /\ (r[1] + r[2] <= Len(mask) => mask[r[1] + r[2]] = 0)}

\* MotionDetector._find_motion_regions: the components whose area reaches
\* min_area * width * height, as [x, width] in pixels with their area
FindMotionRegions(mask) ==
    {[x |-> r[1] - 1, width |-> r[2], area |-> r[2]] :
        r \in {q \in Runs(mask) : q[2] * 1000 >= config.min_area * Len(mask)}}

CountNonZero(mask) == Cardinality({i \in 1..Len(mask) : mask[i] # 0})

----------------------------------------------------------------------------
(* MotionDetector: the detection methods.  Each returns whether it raised,  *)
(* its result, how it got there, and the per-camera maps as it leaves them. *)

MethodResult(raised, has_motion, regions, how, frames, subtractors) ==
    [raised |-> raised, has_motion |-> has_motion, regions |-> regions,
     how |-> how, prev_frames |-> frames, bg_subtractors |-> subtractors]

\* cv2.absdiff then cv2.threshold(diff, pixel_threshold, 255, THRESH_BINARY)
DiffMask(prev, gray) ==
    [i \in 1..Len(gray) |->
        IF Abs(prev[i] - gray[i]) > config.pixel_threshold
        THEN ForegroundValue ELSE 0]

\* a comparison that also calls a ratio equal to the threshold no motion
BelowThresholdInclusive(mask) ==
    CountNonZero(mask) * 100 <= config.threshold * Len(mask)

\* ratio < config.threshold, the ratio being CountNonZero(mask) / mask.size
BelowThreshold(mask) ==
    CountNonZero(mask) * 100 < config.threshold * Len(mask)

\* a first frame answered with `return False, []`
ColdStartClosed(how) ==
    [raised |-> FALSE, has_motion |-> FALSE, regions |-> {}, how |-> how]

\* `return True, []` of _detect_frame_diff when there is no previous frame
\* to compare with, or one of another size
ColdStart(how) ==
    [raised |-> FALSE, has_motion |-> TRUE, regions |-> {}, how |-> how]

\* MotionDetector._detect_frame_diff from `if prev_frame is None` on: the
\* comparison of the grayscale frame with the previous frame read
CompareFrames(prev, gray) ==
    LET thresh == DiffMask(prev, gray)
    IN  IF prev = NoFrame
        THEN ColdStart("first")
        ELSE IF Len(prev) # Len(gray)
        THEN ColdStart("resized")
        ELSE IF Len(gray) = 0    \* thresh.size = 0: ZeroDivisionError
        THEN [raised |-> TRUE, has_motion |-> TRUE, regions |-> {}, how |-> "raised"]
        ELSE IF BelowThreshold(thresh)
        THEN [raised |-> FALSE, has_motion |-> FALSE, regions |-> {}, how |-> "below"]
        ELSE [raised |-> FALSE, has_motion |-> TRUE,
              regions |-> FindMotionRegions(thresh), how |-> "motion"]

\* a store that keeps the frame stored before
StoreFrameKept(camera_id, gray) == prev_frames

\* a store that writes the frame under every camera's key
StoreFrameEverywhere(camera_id, gray) == [c \in Cameras |-> gray]

\* `self._prev_frames[camera_id] = gray.copy()`
StoreFrame(camera_id, gray) == [prev_frames EXCEPT ![camera_id] = gray]

\* MotionDetector._detect_frame_diff
DetectFrameDiff(image, camera_id) ==
    LET p      == Preprocess(image)
        stored == StoreFrame(camera_id, p.gray)
        r      == CompareFrames(prev_frames[camera_id], p.gray)
    IN  IF p.raised
        THEN MethodResult(TRUE, TRUE, {}, "raised", prev_frames, bg_subtractors)
        ELSE MethodResult(r.raised, r.has_motion, r.regions, r.how,
                          stored, bg_subtractors)

\* cv2.createBackgroundSubtractorMOG2 / cv2.createBackgroundSubtractorKNN;
\* obj tells the objects that concurrent calls create apart
CreateSubtractor(kind, obj) == [kind |-> kind, bg |-> NoFrame, obj |-> obj]

\* the squared distance beyond which a subtractor calls a pixel foreground
Dist2Threshold(kind) ==
    IF kind = "mog2" THEN Mog2VarThreshold * Mog2InitialVariance
    ELSE KnnDist2Threshold

\* BackgroundSubtractor.apply: a model with no frame yet, or of another size,
\* calls every pixel foreground; the model then takes the frame in
SubtractorMask(sub, gray) ==
    [i \in 1..Len(gray) |->
        IF sub.bg = NoFrame \/ Len(sub.bg) # Len(gray)
        THEN ForegroundValue
        ELSE IF (gray[i] - sub.bg[i]) * (gray[i] - sub.bg[i]) > Dist2Threshold(sub.kind)
             THEN ForegroundValue ELSE 0]

SubtractorLearn(sub, gray) == [sub EXCEPT !.bg = gray]

\* cv2.erode / cv2.dilate of a one-row mask with the 3x3 elliptic kernel
\* (pixels outside the raster do not count)
Neighbours(i, n) == {j \in {i - 1, i, i + 1} : j >= 1 /\ j <= n}
Erode(mask) ==
    [i \in 1..Len(mask) |->
        IF \A j \in Neighbours(i, Len(mask)) : mask[j] # 0
        THEN ForegroundValue ELSE 0]
Dilate(mask) ==
    [i \in 1..Len(mask) |->
        IF \E j \in Neighbours(i, Len(mask)) : mask[j] # 0
        THEN ForegroundValue ELSE 0]
MorphOpen(mask) == Dilate(Erode(mask))
MorphClose(mask) == Erode(Dilate(mask))

\* the denoising of the foreground mask: _detect_mog2 opens, then closes;
\* _detect_knn opens only
CleanMog2(mask) == MorphClose(MorphOpen(mask))
CleanKnn(mask) == MorphOpen(mask)
CleanMask(kind, mask) == IF kind = "mog2" THEN CleanMog2(mask) ELSE CleanKnn(mask)

\* the part MotionDetector._detect_mog2 and _detect_knn share: get or create
\* the camera's subtractor, apply it, clean the mask, compare the ratio
DetectBackground(image, camera_id, kind) ==
    LET p       == Preprocess(image)
        gray    == p.gray
        created == IF bg_subtractors[camera_id] = NoModel
                   THEN [bg_subtractors EXCEPT ![camera_id] = CreateSubtractor(kind, 0)]
                   ELSE bg_subtractors
        bg_sub  == created[camera_id]
        applied == [created EXCEPT ![camera_id] = SubtractorLearn(bg_sub, gray)]
        fg_mask == CleanMask(kind, SubtractorMask(bg_sub, gray))
    IN  IF p.raised
        THEN MethodResult(TRUE, TRUE, {}, "raised", prev_frames, bg_subtractors)
        ELSE IF Len(gray) = 0    \* apply raises on an empty raster
        THEN MethodResult(TRUE, TRUE, {}, "raised", prev_frames, created)
        ELSE IF BelowThreshold(fg_mask)
        THEN MethodResult(FALSE, FALSE, {}, "below", prev_frames, applied)
        ELSE MethodResult(FALSE, TRUE, FindMotionRegions(fg_mask), "motion",
                          prev_frames, applied)

\* MotionDetector._detect_mog2
DetectMog2(image, camera_id) == DetectBackground(image, camera_id, "mog2")

\* MotionDetector._detect_knn
DetectKnn(image, camera_id) == DetectBackground(image, camera_id, "knn")

\* the dispatch on config.method in MotionDetector.detect
DetectByMethod(image, camera_id) ==
    IF config.method = "frame_diff" THEN DetectFrameDiff(image, camera_id)
    ELSE IF config.method = "mog2" THEN DetectMog2(image, camera_id)
    ELSE IF config.method = "knn" THEN DetectKnn(image, camera_id)
    ELSE MethodResult(FALSE, TRUE, {}, "motion", prev_frames, bg_subtractors)

----------------------------------------------------------------------------
(* MotionDetector.detect *)

GateResult(has_motion, regions, how, frames, subtractors, times, st) ==
    [has_motion |-> has_motion, regions |-> regions, how |-> how,
     prev_frames |-> frames, bg_subtractors |-> subtractors,
     last_motion_times |-> times, mstats |-> st]

\* a cooldown that still holds when exactly cooldown_ms have passed
InCooldownInclusive(camera_id) ==
    now - last_motion_times[camera_id] <= config.cooldown_ms

\* a gate without cooldown
InCooldownNever(camera_id) == FALSE

\* (now - last_motion) * 1000 < cooldown_ms
InCooldown(camera_id) ==
    now - last_motion_times[camera_id] < config.cooldown_ms

\* the statistics after a run of the detection method
StatsAfterMethod(has_motion) ==
    IF has_motion
    THEN [mstats EXCEPT !.frames_processed = @ + 1,
                        !.motion_detected_count = @ + 1,
                        !.last_motion_time = now]
    ELSE [mstats EXCEPT !.frames_processed = @ + 1,
                        !.motion_skipped_count = @ + 1]

\* a gate that never looks at config.enabled
GateAlwaysEnabled == FALSE

\* `if not self.config.enabled`
GateDisabled == ~config.enabled

\* an except clause that fails closed: `return False, []`
GateFailureClosed(frames, subtractors) ==
    [has_motion |-> FALSE, regions |-> {}, how |-> "error",
     prev_frames |-> frames, bg_subtractors |-> subtractors,
     last_motion_times |-> last_motion_times, mstats |-> mstats]

\* the except clause of MotionDetector.detect: `return True, []`, with the
\* per-camera maps as the failed method left them and no statistics counted
GateFailure(frames, subtractors) ==
    GateResult(TRUE, {}, "error", frames, subtractors, last_motion_times, mstats)

\* MotionDetector.detect: what it returns and the state it leaves
Evaluate(image, camera_id) ==
    LET r == DetectByMethod(image, camera_id)
    IN  IF GateDisabled
        THEN GateResult(TRUE, {}, "disabled", prev_frames, bg_subtractors,
                        last_motion_times, mstats)
        ELSE IF InCooldown(camera_id)
        THEN GateResult(TRUE, {}, "cooldown", prev_frames, bg_subtractors,
                        last_motion_times,
                        [mstats EXCEPT !.frames_processed = @ + 1])
        ELSE IF r.raised
        THEN GateFailure(r.prev_frames, r.bg_subtractors)
        ELSE GateResult(r.has_motion, r.regions, r.how,
                        r.prev_frames, r.bg_subtractors,
                        IF r.has_motion
                        THEN [last_motion_times EXCEPT ![camera_id] = now]
                        ELSE last_motion_times,
                        StatsAfterMethod(r.has_motion))

\* a camera the detector holds nothing for
BrandNew(camera_id) ==
    /\ prev_frames[camera_id] = NoFrame
    /\ bg_subtractors[camera_id] = NoModel
    /\ last_motion_times[camera_id] = 0

----------------------------------------------------------------------------
(* The backends and their model lists *)

\* the order in which DetectionService._init_backends probes and registers
BackendOrder == <<"onnx", "nvidia", "openvino", "coral", "coreml">>
Backends == {BackendOrder[i] : i \in 1..Len(BackendOrder)}
NoBackend == "none"

\* the model ids callers pass, and the one uuid4 that load_model can draw
ModelIds == {"m1", "u1"}
UuidIds == {"u1"}
NoId == "none"

\* model files, as <<stem, suffix>>
Paths == {<<"x", ".engine">>, <<"m", "_edgetpu.tflite">>, <<"m", ".mlpackage">>,
          <<"m", ".xml">>, <<"m", ".onnx">>}
EndsWith(path, suffix) == path[2] = suffix

\* a probing in which the Coral backend becomes the default when no other
\* backend has
InitDefaultWithCoral(available) ==
    LET afterOnnx     == IF "onnx" \in available THEN "onnx" ELSE NoBackend
        afterNvidia   == IF "nvidia" \in available THEN "nvidia" ELSE afterOnnx
        afterOpenvino == IF "openvino" \in available /\ afterNvidia = NoBackend
                         THEN "openvino" ELSE afterNvidia
        afterCoral    == IF "coral" \in available /\ afterOpenvino = NoBackend
                         THEN "coral" ELSE afterOpenvino
        afterCoreml   == IF "coreml" \in available /\ afterCoral = NoBackend
                         THEN "coreml" ELSE afterCoral
    IN  afterCoreml

\* DetectionService._init_backends: the default after probing, given the
\* backends that report themselves available
InitDefault(available) ==
    LET afterOnnx     == IF "onnx" \in available THEN "onnx" ELSE NoBackend
        afterNvidia   == IF "nvidia" \in available THEN "nvidia" ELSE afterOnnx
        afterOpenvino == IF "openvino" \in available /\ afterNvidia = NoBackend
                         THEN "openvino" ELSE afterNvidia
        afterCoreml   == IF "coreml" \in available /\ afterOpenvino = NoBackend
                         THEN "coreml" ELSE afterOpenvino
    IN  afterCoreml

\* self.detectors.values(), in insertion order
Registered == SelectSeq(BackendOrder, LAMBDA b : b \in detectors)

\* the scan `for det in self.detectors.values(): for model in det.get_models()`
\* of detect and unload_model: the position of the first backend listing the id
\* (0 when none does)
OwnerIndex(model_id) ==
    LET hits == {i \in 1..Len(Registered) : model_id \in models[Registered[i]]}
    IN  IF hits = {} THEN 0 ELSE CHOOSE i \in hits : \A j \in hits : i <= j

\* a scan that falls back on the default backend
FindOwnerDefault(model_id) ==
    IF OwnerIndex(model_id) = 0 THEN default_backend ELSE Registered[OwnerIndex(model_id)]

FindOwner(model_id) ==
    IF OwnerIndex(model_id) = 0 THEN NoBackend ELSE Registered[OwnerIndex(model_id)]

\* the get_models() calls the scan makes before it stops
ScanCalls(model_id) ==
    IF OwnerIndex(model_id) = 0 THEN Len(Registered) ELSE OwnerIndex(model_id)

\* a selection that falls back on the default backend when the backend the
\* suffix names is not registered
SelectWithFallback(path) ==
    LET wanted == IF EndsWith(path, ".engine") THEN "nvidia"
                  ELSE IF EndsWith(path, "_edgetpu.tflite") THEN "coral"
                  ELSE IF EndsWith(path, ".mlpackage") \/ EndsWith(path, ".mlmodel")
                       THEN "coreml"
                  ELSE IF EndsWith(path, ".xml") \/ EndsWith(path, ".bin")
                       THEN "openvino"
                  ELSE default_backend
    IN  IF wanted \in detectors THEN wanted
        ELSE IF default_backend \in detectors THEN default_backend
        ELSE NoBackend

\* DetectionService.load_model: the backend the path's suffix selects
SelectByExtension(path) ==
    LET wanted == IF EndsWith(path, ".engine") THEN "nvidia"
                  ELSE IF EndsWith(path, "_edgetpu.tflite") THEN "coral"
                  ELSE IF EndsWith(path, ".mlpackage") \/ EndsWith(path, ".mlmodel")
                       THEN "coreml"
                  ELSE IF EndsWith(path, ".xml") \/ EndsWith(path, ".bin")
                       THEN "openvino"
                  ELSE default_backend
    IN  IF wanted \in detectors THEN wanted ELSE NoBackend

\* an unload that leaves the model list as it was
BackendUnloadNothing(b, model_id) == models

\* <Backend>Detector.unload_model: the model list without the id
BackendUnload(b, model_id) == [models EXCEPT ![b] = @ \ {model_id}]

\* <Backend>Detector.load_model: the model list with the id
BackendLoad(b, model_id) == [models EXCEPT ![b] = @ \cup {model_id}]

\* <Backend>Detector.load_model / unload_model: the sessions with and
\* without the id
SessionsLoad(b, model_id) == [sessions EXCEPT ![b] = @ \cup {model_id}]
SessionsUnload(b, model_id) == [sessions EXCEPT ![b] = @ \ {model_id}]

\* <Backend>Detector.close: every model of the backend unloaded
BackendClose(ms, b) == [ms EXCEPT ![b] = {}]

----------------------------------------------------------------------------
(* The record of a call *)

NoEval == [seq |-> 0, at |-> 0, frame |-> NoFrame, has_motion |-> FALSE,
           how |-> "none", fresh |-> FALSE]

NoReport == [processed_count |-> 0, error_count |-> 0, backends |-> {},
             models |-> {}, frames_processed |-> 0, motion_detected |-> 0,
             motion_skipped |-> 0, cameras_tracked |-> 0]

NoCall == [op |-> "none", camera |-> "", frame |-> NoFrame,
           model |-> NoId, skip |-> FALSE, fresh |-> FALSE,
           gate |-> "none", how |-> "none", regions |-> {},
           prior |-> NoEval,
           scans |-> 0, invoked |-> <<>>, outcome |-> "none",
           motion |-> FALSE, ok |-> FALSE, id |-> NoId, backend |-> NoBackend,
           path |-> <<>>, hint |-> NoBackend,
           report |-> NoReport]

\* no post-processing call made yet
NoPost == [op |-> "none", path |-> "none", rows |-> <<>>, min_confidence |-> 0,
           dets |-> <<>>, thr |-> 0, out |-> <<>>, raised |-> FALSE,
           a |-> [x |-> 0, y |-> 0, width |-> 0, height |-> 0],
           b |-> [x |-> 0, y |-> 0, width |-> 0, height |-> 0],
           aa |-> [num |-> 0, den |-> 1], ab |-> [num |-> 0, den |-> 1],
           ba |-> [num |-> 0, den |-> 1], label |-> <<>>, category |-> "none",
           classes |-> "none"]

\* the record of an evaluate call, kept per camera
EvalRecord(image, camera_id, g) ==
    [seq |-> nops + 1, at |-> now, frame |-> image, has_motion |-> g.has_motion,
     how |-> g.how, fresh |-> BrandNew(camera_id)]

----------------------------------------------------------------------------
(* Construction *)

Threads == {"t1", "t2"}
ThreadNo(t) == IF t = "t1" THEN 1 ELSE 2
NoResult == [has_motion |-> FALSE, how |-> "none"]
IdleThread == [pc |-> "idle", op |-> "none", camera |-> "", frame |-> NoFrame,
               method |-> "none", gray |-> NoFrame, prev |-> NoFrame,
               sub |-> NoModel, mask |-> <<>>, has_motion |-> FALSE,
               how |-> "none", tmp |-> 0, t_now |-> 0, calls |-> 0,
               ret |-> NoResult,
               model |-> NoId, backend |-> NoBackend, skip |-> FALSE,
               invoked |-> 0, succeeded |-> 0, failed |-> 0, skipped |-> 0]

\* MotionConfig as DetectionService.__init__ builds it from an empty config
DefaultConfig ==
    [enabled |-> TRUE, method |-> "frame_diff",
     threshold |-> DefaultThresholdPct, pixel_threshold |-> DefaultPixelThreshold,
     min_area |-> DefaultMinAreaPermille, blur_size |-> DefaultBlurSize,
     cooldown_ms |-> DefaultCooldownMs]

ZeroMotionStats ==
    [frames_processed |-> 0, motion_detected_count |-> 0,
     motion_skipped_count |-> 0, last_motion_time |-> 0]

ZeroServiceStats == [processed_count |-> 0, error_count |-> 0]

\* DetectionService.__init__, for each outcome of probing the backends
Init ==
    /\ config = DefaultConfig
    /\ prev_frames = [c \in Cameras |-> NoFrame]
    /\ bg_subtractors = [c \in Cameras |-> NoModel]
    /\ last_motion_times = [c \in Cameras |-> 0]
    /\ mstats = ZeroMotionStats
    /\ \E available \in SUBSET Backends :
          /\ detectors = available
          /\ default_backend = InitDefault(available)
    /\ models = [b \in Backends |-> {}]
    /\ sessions = [b \in Backends |-> {}]
    /\ stats = ZeroServiceStats
    /\ now = StartTime
    /\ last = NoCall
    /\ nops = 0
    /\ evals = [c \in Cameras |-> NoEval]
    /\ th = [t \in Threads |-> IdleThread]
    /\ post = NoPost

----------------------------------------------------------------------------
(* The calls of the service, one at a time *)

\* time passes between calls
Tick ==
    /\ now < StartTime + MaxTicks * TickMs
    /\ now' = now + TickMs
    /\ UNCHANGED <<gateVars, registryVars, stats, last, nops, evals, th>>

\* the part of a call record the motion gate fills in
GateCall(op, image, camera_id, g) ==
    [NoCall EXCEPT !.op = op,
                   !.camera = camera_id, !.frame = image,
                   !.fresh = BrandNew(camera_id),
                   !.gate = IF g.has_motion THEN "motion" ELSE "nomotion",
                   !.how = g.how, !.regions = g.regions,
                   !.prior = evals[camera_id],
                   !.motion = g.has_motion]

\* the motion gate's state after an evaluate call
GateUpdate(image, camera_id, g) ==
    /\ prev_frames' = g.prev_frames
    /\ bg_subtractors' = g.bg_subtractors
    /\ last_motion_times' = g.last_motion_times
    /\ mstats' = g.mstats
    /\ evals' = [evals EXCEPT ![camera_id] = EvalRecord(image, camera_id, g)]
    /\ UNCHANGED config

\* DetectionService.detect_motion_only
DetectMotionOnly(image, camera_id) ==
    LET g == Evaluate(image, camera_id)
    IN  /\ nops' = nops + 1
        /\ GateUpdate(image, camera_id, g)
        /\ last' = [GateCall("detect_motion_only", image, camera_id, g)
                        EXCEPT !.outcome = "ok", !.ok = TRUE]
        /\ UNCHANGED <<registryVars, stats, now, th>>

\* a detect that runs inference whatever the motion check says
SkipsNever(skip_motion_check, has_motion) == FALSE

\* a detect that lets the motion check decide even when told to skip it
SkipsOnNoMotion(skip_motion_check, has_motion) == ~has_motion

\* DetectionService.detect: the motion check says to skip inference
SkipsInference(skip_motion_check, has_motion) ==
    ~skip_motion_check /\ ~has_motion

\* a success path that leaves the counters alone
AfterSuccessLost(st) == st

\* `with self.lock: self.stats.processed_count += 1`
AfterSuccess(st) == [st EXCEPT !.processed_count = @ + 1]

\* `with self.lock: self.stats.error_count += 1`
AfterFailure(st) == [st EXCEPT !.error_count = @ + 1]

\* a detect that calls the backend a second time when its detect raises
RunInferenceRetrying(call, model_id, inference_fails) ==
    LET owner   == FindOwner(model_id)
        scanned == [call EXCEPT !.scans = ScanCalls(model_id)]
    IN  IF owner = NoBackend
        THEN [call  |-> [scanned EXCEPT !.outcome = "ModelNotFound"],
              stats |-> AfterFailure(stats)]
        ELSE [call  |-> [scanned EXCEPT !.outcome = "ok", !.ok = TRUE,
                                        !.invoked = IF inference_fails
                                                    THEN <<owner, owner>>
                                                    ELSE <<owner>>,
                                        !.backend = owner],
              stats |-> AfterSuccess(stats)]

\* DetectionService.detect from the scan for the model's backend on:
\* the outcome, the backend calls made and the counters
RunInference(call, model_id, inference_fails) ==
    LET owner   == FindOwner(model_id)
        scanned == [call EXCEPT !.scans = ScanCalls(model_id)]
    IN  IF owner = NoBackend
        THEN [call  |-> [scanned EXCEPT !.outcome = "ModelNotFound"],
              stats |-> AfterFailure(stats)]
        ELSE IF inference_fails
        THEN [call  |-> [scanned EXCEPT !.outcome = "InferenceError",
                                        !.invoked = <<owner>>,
                                        !.backend = owner],
              stats |-> AfterFailure(stats)]
        ELSE [call  |-> [scanned EXCEPT !.outcome = "ok", !.ok = TRUE,
                                        !.invoked = <<owner>>,
                                        !.backend = owner],
              stats |-> AfterSuccess(stats)]

\* a detect that evaluates the motion gate on every call and ignores the
\* answer when told to skip the check
BypassesGateNever(skip_motion_check) == FALSE

\* `if not skip_motion_check:` around the call of the motion gate
BypassesGate(skip_motion_check) == skip_motion_check

\* DetectionService.detect
Detect(image, model_id, camera_id, skip_motion_check, inference_fails) ==
    LET g    == Evaluate(image, camera_id)
        call == IF skip_motion_check
                THEN [NoCall EXCEPT !.op = "detect",
                                    !.camera = camera_id, !.frame = image,
                                    !.fresh = BrandNew(camera_id),
                                    !.gate = "skipped", !.motion = TRUE]
                ELSE GateCall("detect", image, camera_id, g)
        req  == [call EXCEPT !.model = model_id, !.skip = skip_motion_check]
        r    == RunInference(req, model_id, inference_fails)
    IN  /\ nops' = nops + 1
        /\ IF BypassesGate(skip_motion_check)
           THEN UNCHANGED <<gateVars, evals>>
           ELSE GateUpdate(image, camera_id, g)
        /\ IF SkipsInference(skip_motion_check, g.has_motion)
           THEN /\ last' = [req EXCEPT !.outcome = "no_motion", !.ok = TRUE,
                                       !.motion = FALSE]
                /\ UNCHANGED stats
           ELSE /\ last' = r.call
                /\ stats' = r.stats
        /\ UNCHANGED <<registryVars, now, th>>


\* the backend hints of load_model: a BackendType, or none
BackendHints == Backends \cup {"cpu", NoBackend}

\* a choice that consults the path when the backend named is not registered
ChooseBackendFallback(path, backend) ==
    IF backend # NoBackend /\ backend \in detectors
    THEN [err |-> "none", backend |-> backend]
    ELSE IF SelectByExtension(path) = NoBackend
         THEN [err |-> "NoSuitableBackend", backend |-> NoBackend]
         ELSE [err |-> "none", backend |-> SelectByExtension(path)]

\* DetectionService.load_model: the backend chosen, or the error raised
ChooseBackend(path, backend) ==
    IF backend # NoBackend
    THEN IF backend \in detectors
         THEN [err |-> "none", backend |-> backend]
         ELSE [err |-> "BackendUnavailable", backend |-> NoBackend]
    ELSE IF SelectByExtension(path) = NoBackend
         THEN [err |-> "NoSuitableBackend", backend |-> NoBackend]
         ELSE [err |-> "none", backend |-> SelectByExtension(path)]

\* `model_id or str(uuid.uuid4())[:8]`: the id given, or one no backend lists
IdChoices(model_id) ==
    IF model_id # NoId THEN {model_id}
    ELSE {u \in UuidIds : \A b \in Backends : u \notin models[b]}

\* DetectionService.load_model
LoadModel(path, backend, model_id, load_fails) ==
    LET chosen == ChooseBackend(path, backend)
        call   == [NoCall EXCEPT !.op = "load_model",
                                 !.model = model_id,
                                 !.path = path, !.hint = backend]
    IN  /\ nops' = nops + 1
        /\ IF chosen.err # "none"
           THEN /\ last' = [call EXCEPT !.outcome = chosen.err]
                /\ UNCHANGED <<models, sessions>>
           ELSE IF load_fails
           THEN /\ last' = [call EXCEPT !.outcome = "LoadError",
                                        !.backend = chosen.backend]
                /\ UNCHANGED <<models, sessions>>
           ELSE \E id \in IdChoices(model_id) :
                /\ sessions' = SessionsLoad(chosen.backend, id)
                /\ models' = BackendLoad(chosen.backend, id)
                /\ last' = [call EXCEPT !.outcome = "ok", !.ok = TRUE, !.id = id,
                                        !.backend = chosen.backend]
        /\ UNCHANGED <<gateVars, detectors, post, default_backend, stats, now, evals, th>>

\* DetectionService.unload_model
UnloadModel(model_id) ==
    LET owner == FindOwner(model_id)
        call  == [NoCall EXCEPT !.op = "unload_model",
                                !.model = model_id,
                                !.scans = ScanCalls(model_id),
                                !.outcome = "ok", !.backend = owner]
    IN  /\ nops' = nops + 1
        /\ IF owner = NoBackend
           THEN /\ last' = [call EXCEPT !.ok = FALSE]
                /\ UNCHANGED <<models, sessions>>
           ELSE /\ last' = [call EXCEPT !.ok = TRUE]
                /\ sessions' = SessionsUnload(owner, model_id)
                /\ models' = BackendUnload(owner, model_id)
        /\ UNCHANGED <<gateVars, detectors, post, default_backend, stats, now, evals, th>>

\* DetectionService.close: every registered backend closed
RECURSIVE CloseBackends(_, _)
CloseBackends(ms, order) ==
    IF order = <<>> THEN ms
    ELSE CloseBackends(BackendClose(ms, Head(order)), Tail(order))

\* the backends whose close() has run when DetectionService.close returns or
\* raises: NVIDIADetector.close unloads its engines and then pops the CUDA
\* context, a driver call that can raise; the loop has no except clause
ClosedBeforeRaise(close_fails) ==
    LET hits == {i \in 1..Len(Registered) : Registered[i] = "nvidia"}
    IN  IF close_fails /\ hits # {}
        THEN SubSeq(Registered, 1, CHOOSE i \in hits : TRUE)
        ELSE Registered

Close(close_fails) ==
    LET raised == close_fails /\ "nvidia" \in detectors
    IN  /\ nops' = nops + 1
        /\ models' = CloseBackends(models, ClosedBeforeRaise(close_fails))
        /\ sessions' = CloseBackends(sessions, ClosedBeforeRaise(close_fails))
        /\ last' = [NoCall EXCEPT !.op = "close",
                                  !.outcome = IF raised THEN "CloseError" ELSE "ok",
                                  !.ok = ~raised]
        /\ UNCHANGED <<gateVars, detectors, post, default_backend, stats, now, evals, th>>

\* a status that reports the counters of a fresh service
StatusReportFresh == NoReport

\* MotionDetector.get_stats and DetectionService.get_status
StatusReport ==
    [processed_count |-> stats.processed_count,
     error_count |-> stats.error_count,
     backends |-> detectors,
     models |-> UNION {models[b] : b \in detectors},
     frames_processed |-> mstats.frames_processed,
     motion_detected |-> mstats.motion_detected_count,
     motion_skipped |-> mstats.motion_skipped_count,
     cameras_tracked |-> Cardinality({c \in Cameras : prev_frames[c] # NoFrame})]

GetStatus ==
    /\ nops' = nops + 1
    /\ last' = [NoCall EXCEPT !.op = "get_status",
                              !.outcome = "ok", !.ok = TRUE,
                              !.report = StatusReport]
    /\ UNCHANGED <<gateVars, registryVars, stats, now, evals, th>>

----------------------------------------------------------------------------
(* MotionDetector.reset and MotionDetector.set_config *)

\* reset() is called with no camera
NoCamera == "<none>"

\* `if camera_id:` is false for None and for the empty string
Truthy(camera_id) == camera_id # NoCamera /\ camera_id # ""

\* MotionDetector.reset: a per-camera map after the call
ResetMap(map, camera_id, empty) ==
    IF Truthy(camera_id)
    THEN [c \in Cameras |-> IF c = camera_id THEN empty ELSE map[c]]
    ELSE [c \in Cameras |-> empty]

\* DetectionService.reset_motion
ResetMotion(camera_id) ==
    /\ nops' = nops + 1
    /\ prev_frames' = ResetMap(prev_frames, camera_id, NoFrame)
    /\ bg_subtractors' = ResetMap(bg_subtractors, camera_id, NoModel)
    /\ last_motion_times' = ResetMap(last_motion_times, camera_id, 0)
    /\ last' = [NoCall EXCEPT !.op = "reset_motion",
                              !.camera = camera_id, !.outcome = "ok", !.ok = TRUE]
    /\ UNCHANGED <<config, mstats, registryVars, stats, now, evals, th>>

\* the keyword arguments of set_config, as <<key, value>> pairs
ConfigPairs ==
    {<<"enabled", v>> : v \in BOOLEAN}
    \cup {<<"method", v>> : v \in Methods \cup {"bogus"}}
    \cup {<<"threshold", v>> : v \in {0, DefaultThresholdPct, 100}}
    \cup {<<"cooldown_ms", v>> : v \in {0, DefaultCooldownMs}}
    \cup {<<"blur_size", v>> : v \in {0, DefaultBlurSize}}
    \cup {<<"sensitivity", v>> : v \in {1}}

\* the kwargs dicts tried: one key, or a method and another key in either
\* order (a dict keeps the order its keys were given in)
ConfigKwargs ==
    {<<a>> : a \in ConfigPairs}
    \cup {<<a, m>> : a \in {<<"enabled", FALSE>>, <<"threshold", 100>>},
                     m \in {<<"method", "bogus">>, <<"method", "mog2">>}}
    \cup {<<m, a>> : a \in {<<"enabled", FALSE>>, <<"threshold", 100>>},
                     m \in {<<"method", "bogus">>, <<"method", "mog2">>}}

ConfigKeys == {"enabled", "method", "threshold", "pixel_threshold", "min_area",
               "blur_size", "cooldown_ms"}

\* one turn of the loop of set_config: hasattr, the MotionMethod(value)
\* conversion (which raises ValueError), setattr
SetAttr(c, kw) ==
    IF c.raised \/ kw[1] \notin ConfigKeys THEN c
    ELSE IF kw[1] = "method" /\ kw[2] \notin Methods
    THEN [c EXCEPT !.raised = TRUE]
    ELSE [c EXCEPT !.config = [k \in DOMAIN c.config |->
                                  IF k = kw[1] THEN kw[2] ELSE c.config[k]]]

RECURSIVE SetAttrs(_, _)
SetAttrs(c, kwargs) ==
    IF kwargs = <<>> THEN c ELSE SetAttrs(SetAttr(c, Head(kwargs)), Tail(kwargs))

\* a set_config that never resets
ResetsNever(kwargs) == FALSE

\* `if "method" in kwargs: self.reset()`
ResetsState(kwargs) == \E i \in 1..Len(kwargs) : kwargs[i][1] = "method"

\* DetectionService.configure_motion, MotionDetector.set_config
ConfigureMotion(kwargs) ==
    LET c    == SetAttrs([raised |-> FALSE, config |-> config], kwargs)
        call == [NoCall EXCEPT !.op = "configure_motion"]
    IN  /\ nops' = nops + 1
        /\ config' = c.config
        /\ IF c.raised
           THEN /\ last' = [call EXCEPT !.outcome = "ValueError"]
                /\ UNCHANGED <<prev_frames, bg_subtractors, last_motion_times>>
           ELSE /\ last' = [call EXCEPT !.outcome = "ok", !.ok = TRUE]
                /\ IF ResetsState(kwargs)
                   THEN /\ prev_frames' = ResetMap(prev_frames, NoCamera, NoFrame)
                        /\ bg_subtractors' = ResetMap(bg_subtractors, NoCamera, NoModel)
                        /\ last_motion_times' = ResetMap(last_motion_times, NoCamera, 0)
                   ELSE UNCHANGED <<prev_frames, bg_subtractors, last_motion_times>>
        /\ UNCHANGED <<mstats, registryVars, stats, now, evals, th>>

----------------------------------------------------------------------------
(* The service, serving one call at a time *)

\* an evaluate, reset or configure call
GateCalls(frames, cameras, kwargs_tried) ==
    \/ \E image \in frames, camera_id \in cameras :
          DetectMotionOnly(image, camera_id)
    \/ \E camera_id \in cameras \cup {"", NoCamera} : ResetMotion(camera_id)
    \/ \E kwargs \in kwargs_tried : ConfigureMotion(kwargs)

\* a detect call
DetectCalls(frames, cameras) ==
    \E image \in frames, model_id \in ModelIds, camera_id \in cameras,
       skip_motion_check \in BOOLEAN, inference_fails \in BOOLEAN :
       Detect(image, model_id, camera_id, skip_motion_check, inference_fails)

\* a call on the model lists; a load is made with a backend named, or with
\* none, and then the path decides (and the backend may fail to load the file)
RegistryCalls(paths, hints, ids) ==
    \/ \E path \in paths, model_id \in ids, load_fails \in BOOLEAN :
          LoadModel(path, NoBackend, model_id, load_fails)
    \/ \E backend \in hints, model_id \in ids :
          LoadModel(<<"m", ".onnx">>, backend, model_id, FALSE)
    \/ \E model_id \in ModelIds : UnloadModel(model_id)
    \/ \E close_fails \in BOOLEAN : Close(close_fails)
    \/ GetStatus

\* The whole service where the baseline runtime and the GPU accelerator are
\* available (the GPU accelerator is then the default backend).
Deployments == {{"onnx", "nvidia"}}
ServiceFrames == {<<>>, <<0, 200>>}
ServiceKwargs == {<<<<"enabled", FALSE>>>>, <<<<"method", "mog2">>>>,
                  <<<<"cooldown_ms", 0>>>>}
ServicePaths == {<<"x", ".engine">>, <<"m", ".onnx">>}
ServiceHints == {"onnx", "cpu"}

ServiceInit == Init /\ detectors \in Deployments

Next ==
    \/ Tick
    \/ nops < MaxOps /\ GateCalls(ServiceFrames, {"camA"}, ServiceKwargs)
    \/ nops < MaxOps /\ DetectCalls(ServiceFrames, {"camA"})
    \/ nops < MaxOps /\ RegistryCalls(ServicePaths, ServiceHints, ModelIds \cup {NoId})

Spec == ServiceInit /\ [][Next]_vars

\* The motion gate alone, called through detect_motion_only, reset_motion and
\* configure_motion.
GateInit == Init /\ detectors = Backends

GateNext ==
    \/ Tick
    \/ nops < MaxGateOps /\ GateCalls(Frames, Cameras, ConfigKwargs)

GateSpec == GateInit /\ [][GateNext]_vars

----------------------------------------------------------------------------
(* The motion gate called from the worker threads of the gRPC server         *)
(* (server.py, futures.ThreadPoolExecutor(max_workers=10)).  MotionDetector   *)
(* takes no lock: a thread can be preempted between any two statements, and  *)
(* `x += 1` is a read followed by a write.                                   *)

otherVars == <<registryVars, stats, last, nops, evals>>

Goto(t, pc) == th' = [th EXCEPT ![t].pc = pc]

\* the call returns: the thread is idle again and keeps the result
Return(t, has_motion, how) ==
    th' = [th EXCEPT ![t] = [IdleThread EXCEPT
                                !.calls = th[t].calls + 1,
                                !.ret = [has_motion |-> has_motion, how |-> how]]]

\* MotionDetector.detect up to the dispatch on config.method
ConcCallEvaluate(t, image, camera_id) ==
    LET call == [th[t] EXCEPT !.op = "evaluate", !.camera = camera_id,
                              !.frame = image, !.t_now = now,
                              !.method = config.method]
    IN  /\ th[t].pc = "idle"
        /\ th[t].calls < MaxThreadCalls
        /\ IF GateDisabled
           THEN Return(t, TRUE, "disabled")
           ELSE IF InCooldown(camera_id)
           THEN th' = [th EXCEPT ![t] = [call EXCEPT !.pc = "cd_read"]]
           ELSE IF config.method = "frame_diff"
           THEN th' = [th EXCEPT ![t] = [call EXCEPT !.pc = "fd_read"]]
           ELSE th' = [th EXCEPT ![t] = [call EXCEPT !.pc = "bg_check"]]
        /\ UNCHANGED <<gateVars, otherVars, now>>

\* _detect_frame_diff: preprocess, `prev_frame = self._prev_frames.get(...)`
ConcFdRead(t) ==
    LET p == Preprocess(th[t].frame)
    IN  /\ th[t].pc = "fd_read"
        /\ IF p.raised
           THEN Return(t, TRUE, "error")
           ELSE th' = [th EXCEPT ![t].pc = "fd_store", ![t].gray = p.gray,
                                 ![t].prev = prev_frames[th[t].camera]]
        /\ UNCHANGED <<gateVars, otherVars, now>>

\* _detect_frame_diff: `self._prev_frames[camera_id] = gray.copy()` and the
\* comparison with the frame read before
ConcFdStore(t) ==
    LET r == CompareFrames(th[t].prev, th[t].gray)
    IN  /\ th[t].pc = "fd_store"
        /\ prev_frames' = StoreFrame(th[t].camera, th[t].gray)
        /\ IF r.raised
           THEN Return(t, TRUE, "error")
           ELSE th' = [th EXCEPT ![t].pc = "fp_read",
                                 ![t].has_motion = r.has_motion, ![t].how = r.how]
        /\ UNCHANGED <<config, bg_subtractors, last_motion_times, mstats,
                       otherVars, now>>

\* _detect_mog2 / _detect_knn: preprocess, `camera_id not in self._bg_subtractors`
ConcBgCheck(t) ==
    LET p == Preprocess(th[t].frame)
    IN  /\ th[t].pc = "bg_check"
        /\ IF p.raised
           THEN Return(t, TRUE, "error")
           ELSE th' = [th EXCEPT ![t].gray = p.gray,
                                 ![t].pc = IF bg_subtractors[th[t].camera] = NoModel
                                           THEN "bg_create" ELSE "bg_get"]
        /\ UNCHANGED <<gateVars, otherVars, now>>

\* `self._bg_subtractors[camera_id] = cv2.createBackgroundSubtractor...(...)`
ConcBgCreate(t) ==
    /\ th[t].pc = "bg_create"
    /\ bg_subtractors' =
          [bg_subtractors EXCEPT ![th[t].camera] =
              CreateSubtractor(th[t].method, 10 * ThreadNo(t) + th[t].calls + 1)]
    /\ Goto(t, "bg_get")
    /\ UNCHANGED <<config, prev_frames, last_motion_times, mstats, otherVars, now>>

\* `bg_sub = self._bg_subtractors[camera_id]` (KeyError after a reset)
ConcBgGet(t) ==
    /\ th[t].pc = "bg_get"
    /\ IF bg_subtractors[th[t].camera] = NoModel
       THEN Return(t, TRUE, "error")
       ELSE th' = [th EXCEPT ![t].pc = "bg_apply",
                             ![t].sub = bg_subtractors[th[t].camera]]
    /\ UNCHANGED <<gateVars, otherVars, now>>

\* the subtractor a thread holds: the one in the map while it is still that
\* object, else the object as the thread last saw it
Held(t) ==
    IF bg_subtractors[th[t].camera].obj = th[t].sub.obj
    THEN bg_subtractors[th[t].camera] ELSE th[t].sub

\* `bg_sub.apply(gray)`, which runs without the interpreter lock: first the
\* mask is computed from the model, then (ConcBgLearn) the model is updated
ConcBgApply(t) ==
    LET raw == SubtractorMask(Held(t), th[t].gray)
    IN  /\ th[t].pc = "bg_apply"
        /\ IF Len(th[t].gray) = 0
           THEN Return(t, TRUE, "error")
           ELSE th' = [th EXCEPT ![t].pc = "bg_learn",
                                 ![t].mask = CleanMask(th[t].method, raw)]
        /\ UNCHANGED <<gateVars, otherVars, now>>

ConcBgLearn(t) ==
    LET below == BelowThreshold(th[t].mask)
    IN  /\ th[t].pc = "bg_learn"
        /\ bg_subtractors' =
              IF bg_subtractors[th[t].camera].obj = th[t].sub.obj
              THEN [bg_subtractors EXCEPT ![th[t].camera] =
                                       SubtractorLearn(@, th[t].gray)]
              ELSE bg_subtractors
        /\ th' = [th EXCEPT ![t].pc = "fp_read", ![t].has_motion = ~below,
                            ![t].how = IF below THEN "below" ELSE "motion"]
        /\ UNCHANGED <<config, prev_frames, last_motion_times, mstats, otherVars, now>>

\* the counter a `+= 1` statement of MotionDetector.detect is about
CounterAt(pc) ==
    IF pc \in {"cd_read", "cd_write", "fp_read", "fp_write"} THEN "frames_processed"
    ELSE IF pc \in {"md_read", "md_write"} THEN "motion_detected_count"
    ELSE "motion_skipped_count"

\* `self.stats.<counter> += 1`, the read
ConcCounterRead(t) ==
    /\ th[t].pc \in {"cd_read", "fp_read", "md_read", "ms_read"}
    /\ th' = [th EXCEPT ![t].tmp = mstats[CounterAt(th[t].pc)],
                        ![t].pc = IF th[t].pc = "cd_read" THEN "cd_write"
                                  ELSE IF th[t].pc = "fp_read" THEN "fp_write"
                                  ELSE IF th[t].pc = "md_read" THEN "md_write"
                                  ELSE "ms_write"]
    /\ UNCHANGED <<gateVars, otherVars, now>>

\* `self.stats.<counter> += 1`, the write
ConcCounterWrite(t) ==
    /\ th[t].pc \in {"cd_write", "fp_write", "md_write", "ms_write"}
    /\ mstats' = [mstats EXCEPT ![CounterAt(th[t].pc)] = th[t].tmp + 1]
    /\ IF th[t].pc = "cd_write" THEN Return(t, TRUE, "cooldown")
       ELSE IF th[t].pc = "fp_write"
       THEN Goto(t, IF th[t].has_motion THEN "md_read" ELSE "ms_read")
       ELSE IF th[t].pc = "md_write" THEN Goto(t, "lmt_write")
       ELSE Return(t, FALSE, th[t].how)
    /\ UNCHANGED <<config, prev_frames, bg_subtractors, last_motion_times,
                   otherVars, now>>

\* `self._last_motion_times[camera_id] = now; self.stats.last_motion_time = now`
ConcMotionTime(t) ==
    /\ th[t].pc = "lmt_write"
    /\ last_motion_times' = [last_motion_times EXCEPT ![th[t].camera] = th[t].t_now]
    /\ mstats' = [mstats EXCEPT !.last_motion_time = th[t].t_now]
    /\ Return(t, TRUE, th[t].how)
    /\ UNCHANGED <<config, prev_frames, bg_subtractors, otherVars, now>>

\* MotionDetector.set_config with one key: the setattr
ConcCallConfigure(t, kwargs) ==
    LET c == SetAttrs([raised |-> FALSE, config |-> config], kwargs)
    IN  /\ th[t].pc = "idle"
        /\ th[t].calls < MaxThreadCalls
        /\ Len(kwargs) = 1
        /\ config' = c.config
        /\ IF c.raised THEN Return(t, FALSE, "ValueError")
           ELSE IF ResetsState(kwargs)
           THEN th' = [th EXCEPT ![t].pc = "rs_prev", ![t].op = "configure",
                                 ![t].camera = NoCamera]
           ELSE Return(t, FALSE, "ok")
        /\ UNCHANGED <<prev_frames, bg_subtractors, last_motion_times, mstats,
                       otherVars, now>>

\* MotionDetector.reset, called
ConcCallReset(t, camera_id) ==
    /\ th[t].pc = "idle"
    /\ th[t].calls < MaxThreadCalls
    /\ th' = [th EXCEPT ![t].pc = "rs_prev", ![t].op = "reset",
                        ![t].camera = camera_id]
    /\ UNCHANGED <<gateVars, otherVars, now>>

\* MotionDetector.reset: the pop or clear of one of the three maps
ConcResetStep(t) ==
    /\ th[t].pc \in {"rs_prev", "rs_bg", "rs_times"}
    /\ IF th[t].pc = "rs_prev"
       THEN /\ prev_frames' = ResetMap(prev_frames, th[t].camera, NoFrame)
            /\ Goto(t, "rs_bg")
            /\ UNCHANGED <<bg_subtractors, last_motion_times>>
       ELSE IF th[t].pc = "rs_bg"
       THEN /\ bg_subtractors' = ResetMap(bg_subtractors, th[t].camera, NoModel)
            /\ Goto(t, "rs_times")
            /\ UNCHANGED <<prev_frames, last_motion_times>>
       ELSE /\ last_motion_times' = ResetMap(last_motion_times, th[t].camera, 0)
            /\ Return(t, FALSE, "ok")
            /\ UNCHANGED <<prev_frames, bg_subtractors>>
    /\ UNCHANGED <<config, mstats, otherVars, now>>

ConcFrames == {<<0, 0>>, <<0, 200>>}
ConcKwargs == {<<<<"method", "mog2">>>>, <<<<"method", "knn">>>>,
               <<<<"cooldown_ms", 0>>>>}
ConcCameras == {"camA"}

\* the calls overlap within one clock reading
ConcNext ==
    \/ \E t \in Threads, image \in ConcFrames, camera_id \in ConcCameras :
          ConcCallEvaluate(t, image, camera_id)
    \/ \E t \in Threads : ConcFdRead(t)
    \/ \E t \in Threads : ConcFdStore(t)
    \/ \E t \in Threads : ConcBgCheck(t)
    \/ \E t \in Threads : ConcBgCreate(t)
    \/ \E t \in Threads : ConcBgGet(t)
    \/ \E t \in Threads : ConcBgApply(t)
    \/ \E t \in Threads : ConcBgLearn(t)
    \/ \E t \in Threads : ConcCounterRead(t)
    \/ \E t \in Threads : ConcCounterWrite(t)
    \/ \E t \in Threads : ConcMotionTime(t)
    \/ \E t \in Threads, kwargs \in ConcKwargs : ConcCallConfigure(t, kwargs)
    \/ \E t \in Threads, camera_id \in ConcCameras :
          ConcCallReset(t, camera_id)
    \/ \E t \in Threads : ConcResetStep(t)

ConcSpec == GateInit /\ [][ConcNext]_vars

\* one stream per worker: each thread submits the frames of its own camera
ThreadCamera == [t \in Threads |-> IF t = "t1" THEN "camA" ELSE "camB"]

IsoNext ==
    \/ \E t \in Threads, image \in ConcFrames :
          ConcCallEvaluate(t, image, ThreadCamera[t])
    \/ \E t \in Threads : ConcFdRead(t)
    \/ \E t \in Threads : ConcFdStore(t)
    \/ \E t \in Threads : ConcBgCheck(t)
    \/ \E t \in Threads : ConcBgCreate(t)
    \/ \E t \in Threads : ConcBgGet(t)
    \/ \E t \in Threads : ConcBgApply(t)
    \/ \E t \in Threads : ConcBgLearn(t)
    \/ \E t \in Threads : ConcCounterRead(t)
    \/ \E t \in Threads : ConcCounterWrite(t)
    \/ \E t \in Threads : ConcMotionTime(t)
    \/ \E t \in Threads, kwargs \in ConcKwargs : ConcCallConfigure(t, kwargs)
    \/ \E t \in Threads : ConcResetStep(t)

IsoSpec == GateInit /\ [][IsoNext]_vars

----------------------------------------------------------------------------
(* DetectionService called from the worker threads: detect, load_model and   *)
(* unload_model take no lock around the scan of the model lists or the       *)
(* backends' dicts; only the two counter updates run under self.lock.  The   *)
(* motion gate is taken in one step here (its own races are in ConcSpec).    *)

\* the call returns (or raises); the thread keeps what its calls have seen
Done(rec, outcome) ==
    [IdleThread EXCEPT !.calls = rec.calls + 1,
                       !.ret = [has_motion |-> rec.has_motion, how |-> outcome],
                       !.succeeded = rec.succeeded, !.failed = rec.failed,
                       !.skipped = rec.skipped]

\* DetectionService.detect up to the scan: the motion check
SvcCallDetect(t, image, model_id, camera_id, skip_motion_check) ==
    LET g    == Evaluate(image, camera_id)
        call == [th[t] EXCEPT !.op = "detect", !.camera = camera_id,
                              !.frame = image, !.model = model_id,
                              !.skip = skip_motion_check, !.has_motion = TRUE]
    IN  /\ th[t].pc = "idle"
        /\ th[t].calls < MaxThreadCalls
        /\ IF skip_motion_check
           THEN /\ UNCHANGED gateVars
                /\ th' = [th EXCEPT ![t] = [call EXCEPT !.pc = "sv_scan"]]
           ELSE /\ prev_frames' = g.prev_frames
                /\ bg_subtractors' = g.bg_subtractors
                /\ last_motion_times' = g.last_motion_times
                /\ mstats' = g.mstats
                /\ UNCHANGED config
                /\ IF SkipsInference(skip_motion_check, g.has_motion)
                   THEN th' = [th EXCEPT ![t] =
                                  Done([call EXCEPT !.has_motion = FALSE,
                                                    !.skipped = @ + 1],
                                       "no_motion")]
                   ELSE th' = [th EXCEPT ![t] = [call EXCEPT !.pc = "sv_scan"]]
        /\ UNCHANGED <<otherVars, now>>

\* the scan `for det in self.detectors.values(): for model in det.get_models()`
SvcScan(t) ==
    LET owner == FindOwner(th[t].model)
    IN  /\ th[t].pc = "sv_scan"
        /\ IF owner = NoBackend
           THEN th' = [th EXCEPT ![t].pc = "sv_err", ![t].how = "ModelNotFound",
                                 ![t].failed = @ + 1]
           ELSE th' = [th EXCEPT ![t].pc = "sv_run", ![t].backend = owner]
        /\ UNCHANGED <<gateVars, otherVars, now>>

\* `detector.detect(image, model_id, ...)`: the backend raises when it holds
\* no session for the id, or when inference fails
SvcRun(t, inference_fails) ==
    /\ th[t].pc = "sv_run"
    /\ IF th[t].model \notin sessions[th[t].backend]
       THEN th' = [th EXCEPT ![t].pc = "sv_err", ![t].how = "ModelNotLoaded",
                             ![t].invoked = @ + 1, ![t].failed = @ + 1]
       ELSE IF inference_fails
       THEN th' = [th EXCEPT ![t].pc = "sv_err", ![t].how = "InferenceError",
                             ![t].invoked = @ + 1, ![t].failed = @ + 1]
       ELSE th' = [th EXCEPT ![t].pc = "sv_ok", ![t].how = "ok",
                             ![t].invoked = @ + 1, ![t].succeeded = @ + 1]
    /\ UNCHANGED <<gateVars, otherVars, now>>

\* `with self.lock: self.stats.<counter> += 1`, then return or re-raise
SvcCount(t) ==
    /\ th[t].pc \in {"sv_ok", "sv_err"}
    /\ stats' = IF th[t].pc = "sv_ok" THEN AfterSuccess(stats)
                ELSE AfterFailure(stats)
    /\ th' = [th EXCEPT ![t] = Done(th[t], th[t].how)]
    /\ UNCHANGED <<gateVars, registryVars, last, nops, evals, now>>

\* DetectionService.unload_model: the scan
SvcCallUnload(t, model_id) ==
    LET owner == FindOwner(model_id)
    IN  /\ th[t].pc = "idle"
        /\ th[t].calls < MaxThreadCalls
        /\ IF owner = NoBackend
           THEN th' = [th EXCEPT ![t] = Done(th[t], "false")]
           ELSE th' = [th EXCEPT ![t].pc = "un_sess", ![t].op = "unload_model",
                                 ![t].model = model_id, ![t].backend = owner]
        /\ UNCHANGED <<gateVars, otherVars, now>>

\* <Backend>Detector.unload_model: `if model_id in self.sessions:
\* del self.sessions[model_id]`
SvcUnloadSession(t) ==
    /\ th[t].pc = "un_sess"
    /\ IF th[t].model \in sessions[th[t].backend]
       THEN /\ sessions' = SessionsUnload(th[t].backend, th[t].model)
            /\ th' = [th EXCEPT ![t].pc = "un_info"]
       ELSE /\ UNCHANGED sessions
            /\ th' = [th EXCEPT ![t] = Done(th[t], "false")]
    /\ UNCHANGED <<gateVars, detectors, post, default_backend, models, stats, last,
                   nops, evals, now>>

\* <Backend>Detector.unload_model: `del self.model_info[model_id]`
SvcUnloadInfo(t) ==
    /\ th[t].pc = "un_info"
    /\ IF th[t].model \in models[th[t].backend]
       THEN /\ models' = BackendUnload(th[t].backend, th[t].model)
            /\ th' = [th EXCEPT ![t] = Done(th[t], "true")]
       ELSE /\ UNCHANGED models
            /\ th' = [th EXCEPT ![t] = Done(th[t], "KeyError")]
    /\ UNCHANGED <<gateVars, detectors, post, default_backend, sessions, stats, last,
                   nops, evals, now>>

\* DetectionService.load_model: the choice of the backend
SvcCallLoad(t, path, backend, model_id) ==
    LET chosen == ChooseBackend(path, backend)
    IN  /\ th[t].pc = "idle"
        /\ th[t].calls < MaxThreadCalls
        /\ IF chosen.err # "none"
           THEN th' = [th EXCEPT ![t] = Done(th[t], chosen.err)]
           ELSE th' = [th EXCEPT ![t].pc = "ld_sess", ![t].op = "load_model",
                                 ![t].model = model_id,
                                 ![t].backend = chosen.backend]
        /\ UNCHANGED <<gateVars, otherVars, now>>

\* <Backend>Detector.load_model: `self.sessions[model_id] = session`
SvcLoadSession(t) ==
    /\ th[t].pc = "ld_sess"
    /\ sessions' = SessionsLoad(th[t].backend, th[t].model)
    /\ th' = [th EXCEPT ![t].pc = "ld_info"]
    /\ UNCHANGED <<gateVars, detectors, post, default_backend, models, stats, last,
                   nops, evals, now>>

\* <Backend>Detector.load_model: `self.model_info[model_id] = ModelInfo(...)`
SvcLoadInfo(t) ==
    /\ th[t].pc = "ld_info"
    /\ models' = BackendLoad(th[t].backend, th[t].model)
    /\ th' = [th EXCEPT ![t] = Done(th[t], "ok")]
    /\ UNCHANGED <<gateVars, detectors, post, default_backend, sessions, stats, last,
                   nops, evals, now>>

SvcFrames == {<<0, 200>>}
SvcModels == {"m1"}

SvcNext ==
    \/ Tick
    \/ \E t \in Threads, image \in SvcFrames, model_id \in SvcModels,
          skip_motion_check \in BOOLEAN :
          SvcCallDetect(t, image, model_id, "camA", skip_motion_check)
    \/ \E t \in Threads : SvcScan(t)
    \/ \E t \in Threads, inference_fails \in BOOLEAN : SvcRun(t, inference_fails)
    \/ \E t \in Threads : SvcCount(t)
    \/ \E t \in Threads, model_id \in SvcModels : SvcCallUnload(t, model_id)
    \/ \E t \in Threads : SvcUnloadSession(t)
    \/ \E t \in Threads : SvcUnloadInfo(t)
    \/ \E t \in Threads, model_id \in SvcModels :
          SvcCallLoad(t, <<"m", ".onnx">>, NoBackend, model_id)
    \/ \E t \in Threads : SvcLoadSession(t)
    \/ \E t \in Threads : SvcLoadInfo(t)

SvcSpec == ServiceInit /\ [][SvcNext]_vars

----------------------------------------------------------------------------
(* Post-processing shared by the backends (backends/base.py) and the         *)
(* YOLOv8/11/12 decoder of the ONNX backend.  A raw row is a sequence of      *)
(* numbers <<x_center, y_center, width, height, scores...>> in input pixels   *)
(* and percent.  A normalised coordinate is written in units of               *)
(* 1 / (2 * InputSize), which holds (x_center - width / 2) / input_size       *)
(* exactly; a ratio of areas is a record [num, den].  Labels are sequences of *)
(* characters.                                                                *)

\* info.input_size, the same in both directions
InputSize == 4

Max2(a, b) == IF a >= b THEN a ELSE b
Min2(a, b) == IF a <= b THEN a ELSE b

UpperCase == <<"A", "B", "C", "D", "E", "F", "G", "H", "I", "J", "K", "L", "M",
               "N", "O", "P", "Q", "R", "S", "T", "U", "V", "W", "X", "Y", "Z">>
LowerCase == <<"a", "b", "c", "d", "e", "f", "g", "h", "i", "j", "k", "l", "m",
               "n", "o", "p", "q", "r", "s", "t", "u", "v", "w", "x", "y", "z">>

\* a lower() that leaves every character as it is
LowerCharKept(ch) == ch

\* str.lower() on one character
LowerChar(ch) ==
    IF \E i \in 1..Len(UpperCase) : UpperCase[i] = ch
    THEN LowerCase[CHOOSE i \in 1..Len(UpperCase) : UpperCase[i] = ch]
    ELSE ch

\* label.lower()
Lower(label) == [i \in 1..Len(label) |-> LowerChar(label[i])]

\* the lists of _classify_object_type, by the object type they stand for
LabelTable ==
    [person |->
        {<<"p", "e", "r", "s", "o", "n">>,
         <<"p", "e", "d", "e", "s", "t", "r", "i", "a", "n">>,
         <<"m", "a", "n">>,
         <<"w", "o", "m", "a", "n">>,
         <<"c", "h", "i", "l", "d">>},
     vehicle |->
        {<<"c", "a", "r">>,
         <<"t", "r", "u", "c", "k">>,
         <<"b", "u", "s">>,
         <<"m", "o", "t", "o", "r", "c", "y", "c", "l", "e">>,
         <<"b", "i", "c", "y", "c", "l", "e">>,
         <<"v", "e", "h", "i", "c", "l", "e">>},
     animal |->
        {<<"d", "o", "g">>,
         <<"c", "a", "t">>,
         <<"b", "i", "r", "d">>,
         <<"h", "o", "r", "s", "e">>,
         <<"c", "o", "w">>,
         <<"s", "h", "e", "e", "p">>,
         <<"a", "n", "i", "m", "a", "l">>},
     face |->
        {<<"f", "a", "c", "e">>},
     license_plate |->
        {<<"l", "i", "c", "e", "n", "s", "e", " ", "p", "l", "a", "t", "e">>,
         <<"p", "l", "a", "t", "e">>},
     package |->
        {<<"p", "a", "c", "k", "a", "g", "e">>, <<"b", "o", "x">>}]

\* Detector._classify_object_type
ClassifyObjectType(label) ==
    IF Lower(label) \in LabelTable.person THEN "person"
    ELSE IF Lower(label) \in LabelTable.vehicle THEN "vehicle"
    ELSE IF Lower(label) \in LabelTable.animal THEN "animal"
    ELSE IF Lower(label) \in LabelTable.face THEN "face"
    ELSE IF Lower(label) \in LabelTable.license_plate THEN "license_plate"
    ELSE IF Lower(label) \in LabelTable.package THEN "package"
    ELSE "unknown"

\* BoundingBox.area
Area(box) == box.width * box.height

\* Detector._compute_iou: intersection / union, 0.0 when the boxes do not
\* overlap or the union is empty
ComputeIou(box1, box2) ==
    LET x1 == Max2(box1.x, box2.x)
        y1 == Max2(box1.y, box2.y)
        x2 == Min2(box1.x + box1.width, box2.x + box2.width)
        y2 == Min2(box1.y + box1.height, box2.y + box2.height)
        intersection == (x2 - x1) * (y2 - y1)
        union == Area(box1) + Area(box2) - intersection
    IN  IF x2 <= x1 \/ y2 <= y1 THEN [num |-> 0, den |-> 1]
        ELSE IF union > 0 THEN [num |-> intersection, den |-> union]
        ELSE [num |-> 0, den |-> 1]

\* a suppression that lets every detection through
SurvivesAlways(best, d, iou_threshold) == TRUE

\* a suppression that still keeps a detection whose IoU equals the threshold
SurvivesAtThreshold(best, d, iou_threshold) ==
    LET iou == ComputeIou(best.bbox, d.bbox)
    IN  iou.num * 100 <= iou_threshold * iou.den

\* `self._compute_iou(best.bbox, d.bbox) < iou_threshold`, the threshold in
\* percent
Survives(best, d, iou_threshold) ==
    LET iou == ComputeIou(best.bbox, d.bbox)
    IN  iou.num * 100 < iou_threshold * iou.den

\* sorted(detections, key=confidence, reverse=True): stable, so that equal
\* confidences keep their input order
RECURSIVE SortByConfidence(_)
SortByConfidence(dets) ==
    IF dets = <<>> THEN <<>>
    ELSE LET best == CHOOSE i \in 1..Len(dets) :
                        /\ \A j \in 1..Len(dets) :
                              dets[j].confidence <= dets[i].confidence
                        /\ \A j \in 1..(i - 1) :
                              dets[j].confidence < dets[i].confidence
         IN  <<dets[best]>> \o
             SortByConfidence(SubSeq(dets, 1, best - 1)
                              \o SubSeq(dets, best + 1, Len(dets)))

\* the while loop of _apply_nms over the sorted detections
RECURSIVE NmsLoop(_, _)
NmsLoop(detections, iou_threshold) ==
    IF detections = <<>> THEN <<>>
    ELSE LET best == Head(detections)
         IN  <<best>> \o
             NmsLoop(SelectSeq(Tail(detections),
                               LAMBDA d : Survives(best, d, iou_threshold)),
                     iou_threshold)

\* Detector._apply_nms
ApplyNms(detections, iou_threshold) ==
    IF Len(detections) <= 1 THEN detections
    ELSE NmsLoop(SortByConfidence(detections), iou_threshold)

\* the class names of the loaded model (info.classes)
ClassNames == <<<<"p", "e", "r", "s", "o", "n">>>>

\* np.argmax: the first position of the greatest score, counted from 0
ArgMax(scores) ==
    (CHOOSE i \in 1..Len(scores) :
        /\ \A j \in 1..Len(scores) : scores[j] <= scores[i]
        /\ \A j \in 1..(i - 1) : scores[j] < scores[i]) - 1

\* `classes[class_id] if class_id < len(classes) else f"class_{class_id}"`
LabelOf(class_id) ==
    IF class_id < Len(ClassNames) THEN ClassNames[class_id + 1]
    ELSE <<"c", "l", "a", "s", "s", "_", ToString(class_id)>>

\* the class scores a decode path reads from a row: postprocess_yolo takes
\* slot 4 of a five-value row and the values after slot 4 of a longer one,
\* _postprocess_yolov8 every value after the box
ScoresOf(path, row) ==
    IF path = "yolov8" \/ Len(row) = 5 THEN SubSeq(row, 5, Len(row))
    ELSE SubSeq(row, 6, Len(row))

\* a clamping that bounds the size by the frame but not by the room left of
\* the corner: `w = max(0, min(1, w))`
ClampedBoxLoose(row) ==
    [x |-> Max2(0, Min2(2 * InputSize, 2 * row[1] - row[3])),
     y |-> Max2(0, Min2(2 * InputSize, 2 * row[2] - row[4])),
     width  |-> Max2(0, Min2(2 * InputSize, 2 * row[3])),
     height |-> Max2(0, Min2(2 * InputSize, 2 * row[4]))]

\* the clamped box of a row: `x = max(0, min(1, x))`, `w = max(0, min(1 - x, w))`
ClampedBox(row) ==
    LET x == Max2(0, Min2(2 * InputSize, 2 * row[1] - row[3]))
        y == Max2(0, Min2(2 * InputSize, 2 * row[2] - row[4]))
    IN  [x |-> x, y |-> y,
         width  |-> Max2(0, Min2(2 * InputSize - x, 2 * row[3])),
         height |-> Max2(0, Min2(2 * InputSize - y, 2 * row[4]))]

\* `if w <= 0 or h <= 0: continue` is in _postprocess_yolov8 only
SkipsInvalid(path) == path = "yolov8"

\* one turn of the loop over the rows: the detections of the row (none when
\* the row is skipped)
DecodeRow(path, row, min_confidence) ==
    LET scores   == ScoresOf(path, row)
        class_id == ArgMax(scores)
        box      == ClampedBox(row)
        label    == LabelOf(IF path = "generic" /\ Len(row) = 5 THEN 0 ELSE class_id)
    IN  IF path = "generic" /\ Len(row) < 5 THEN <<>>
        ELSE IF scores[class_id + 1] < min_confidence THEN <<>>
        ELSE IF SkipsInvalid(path) /\ (box.width <= 0 \/ box.height <= 0) THEN <<>>
        ELSE <<[object_type |-> ClassifyObjectType(label), label |-> label,
                confidence |-> scores[class_id + 1], bbox |-> box]>>

\* the loop over the rows of postprocess_yolo / _postprocess_yolov8
RECURSIVE DecodeRows(_, _, _)
DecodeRows(path, rows, min_confidence) ==
    IF rows = <<>> THEN <<>>
    ELSE DecodeRow(path, Head(rows), min_confidence)
         \o DecodeRows(path, Tail(rows), min_confidence)

\* `return self._apply_nms(results, iou_threshold=0.45)`
NmsIouThresholdPct == 45

\* rows tried per tensor, detections tried per nms call
MaxRows == 2
MaxDets == 3

\* raw rows: a box inside the frame, the same box with a low score, boxes of
\* zero and of negative width, a box centred outside the frame, an
\* overlapping box, a box whose corner lies left of the frame; and rows with
\* an objectness slot and one class score
RawRows5 == {<<2, 2, 2, 2, 90>>, <<2, 2, 2, 2, 40>>, <<2, 2, 0, 2, 80>>,
             <<2, 2, -2, 2, 70>>, <<6, 2, 2, 2, 80>>, <<3, 3, 2, 2, 85>>,
             <<0, 2, 2, 10, 75>>}
RawRows6 == {<<2, 2, 2, 2, 10, 90>>, <<1, 1, 2, 2, 95, 30>>, <<2, 2, 0, 0, 99, 99>>}

\* the tensors tried: up to MaxRows rows of one width
SeqsUpTo(S, n) == UNION {[1..k -> S] : k \in 0..n}
Tensors == SeqsUpTo(RawRows5, MaxRows) \cup SeqsUpTo(RawRows6, MaxRows)

\* the detections given to nms: two boxes of IoU 0.6, a disjoint box of equal
\* confidence, a pair of IoU exactly 0.45, and a box of no area
Det(x, y, w, h, confidence) ==
    [object_type |-> "person", label |-> ClassNames[1], confidence |-> confidence,
     bbox |-> [x |-> x, y |-> y, width |-> w, height |-> h]]
NmsDets == {Det(0, 0, 4, 4, 90), Det(1, 0, 4, 4, 40), Det(4, 4, 4, 4, 90),
            Det(0, 0, 3, 3, 60), Det(0, 0, 4, 5, 70), Det(2, 2, 0, 4, 95)}
IouThresholds == {0, NmsIouThresholdPct, 100}

BoxesOf(dets) == {dets[i].bbox : i \in 1..Len(dets)}

\* the labels classified
Labels ==
    {<<"P", "e", "r", "s", "o", "n">>,
     <<"p", "e", "r", "s", "o", "n">>,
     <<"P", "E", "R", "S", "O", "N">>,
     <<"s", "k", "a", "t", "e", "b", "o", "a", "r", "d">>,
     <<"S", "k", "a", "t", "e", "b", "o", "a", "r", "d">>,
     <<"C", "a", "r">>,
     <<"c", "a", "r">>,
     <<"D", "O", "G">>,
     <<"d", "o", "g">>,
     <<"F", "a", "c", "e">>,
     <<"L", "i", "c", "e", "n", "s", "e", " ", "P", "l", "a", "t", "e">>,
     <<"l", "i", "c", "e", "n", "s", "e", " ", "p", "l", "a", "t", "e">>,
     <<"p", "l", "a", "t", "e">>,
     <<"B", "O", "X">>,
     <<"b", "o", "x">>,
     <<"c", "l", "a", "s", "s", "_", "1">>,
     <<"c", "h", "i", "l", "d">>,
     <<"C", "h", "i", "l", "d">>}

\* everything but the post-processing call: post-processing has no state,
\* so one call (and the overlaps of what it returned) is taken per behaviour
notPost == <<gateVars, detectors, default_backend, models, sessions, stats, now,
             last, nops, evals, th>>

\* postprocess_yolo / _postprocess_yolov8 on a raw tensor
PostDecode(path, rows, min_confidence) ==
    /\ post.op = "none"
    /\ post' = [NoPost EXCEPT !.op = "decode", !.path = path, !.rows = rows,
                              !.min_confidence = min_confidence,
                              !.dets = DecodeRows(path, rows, min_confidence),
                              !.thr = NmsIouThresholdPct,
                              !.out = ApplyNms(DecodeRows(path, rows, min_confidence),
                                               NmsIouThresholdPct)]
    /\ UNCHANGED notPost

\* _apply_nms on a list of detections
PostNms(dets, iou_threshold) ==
    /\ post.op = "none"
    /\ post' = [NoPost EXCEPT !.op = "nms", !.dets = dets, !.thr = iou_threshold,
                              !.out = ApplyNms(dets, iou_threshold)]
    /\ UNCHANGED notPost

\* `classes: Optional[List[str]] = None`: no class filter given
NoClasses == "none"

\* the class filters tried: none, an empty list, the model's class, a class
\* the model does not name
ClassFilters == {NoClasses, <<>>, <<ClassNames[1]>>,
                 <<<<"c", "l", "a", "s", "s", "_", "1">>>>}

\* `if classes: results = [r for r in results if r.label in classes]`
\* (None and the empty list are both false)
FilterByClasses(results, classes) ==
    IF classes # NoClasses /\ classes # <<>>
    THEN SelectSeq(results,
                   LAMBDA r : \E i \in 1..Len(classes) : classes[i] = r.label)
    ELSE results

\* <Backend>Detector.detect from the decoding of the output tensor on: the
\* decoder the model type selects (which ends with NMS), then the class filter
PostDetect(path, rows, min_confidence, classes) ==
    /\ post.op = "none"
    /\ post' = [NoPost EXCEPT !.op = "detect", !.path = path, !.rows = rows,
                              !.min_confidence = min_confidence,
                              !.classes = classes,
                              !.thr = NmsIouThresholdPct,
                              !.dets = ApplyNms(DecodeRows(path, rows, min_confidence),
                                                NmsIouThresholdPct),
                              !.out = FilterByClasses(
                                         ApplyNms(DecodeRows(path, rows, min_confidence),
                                                  NmsIouThresholdPct),
                                         classes)]
    /\ UNCHANGED notPost

\* _compute_iou on two boxes of the detections the last decoding returned
PostIou(a, b) ==
    /\ post.op \in {"decode", "iou"}
    /\ a \in BoxesOf(post.out) /\ b \in BoxesOf(post.out)
    /\ post' = [post EXCEPT !.op = "iou", !.a = a, !.b = b,
                            !.aa = ComputeIou(a, a), !.ab = ComputeIou(a, b),
                            !.ba = ComputeIou(b, a)]
    /\ UNCHANGED notPost

\* _classify_object_type on a label
PostClassify(label) ==
    /\ post.op = "none"
    /\ post' = [NoPost EXCEPT !.op = "classify", !.label = label,
                              !.category = ClassifyObjectType(label)]
    /\ UNCHANGED notPost

PostNext ==
    \/ \E path \in {"generic", "yolov8"}, rows \in Tensors,
          min_confidence \in {50} : PostDecode(path, rows, min_confidence)
    \/ \E dets \in SeqsUpTo(NmsDets, MaxDets), iou_threshold \in IouThresholds :
          PostNms(dets, iou_threshold)
    \/ \E a \in BoxesOf(post.out), b \in BoxesOf(post.out) : PostIou(a, b)
    \/ \E label \in Labels : PostClassify(label)
    \/ \E path \in {"generic", "yolov8"}, rows \in Tensors,
          min_confidence \in {50}, classes \in ClassFilters :
          PostDetect(path, rows, min_confidence, classes)

PostSpec == GateInit /\ [][PostNext]_vars

\* The model lists alone, for every outcome of probing the backends; detect
\* is called on one frame.
RegistryNext ==
    \/ nops < MaxRegistryOps /\ DetectCalls({<<0, 0>>}, {"camA"})
    \/ nops < MaxRegistryOps /\ RegistryCalls(Paths, BackendHints \ {NoBackend}, {"m1", NoId})

RegistrySpec == Init /\ [][RegistryNext]_vars

----------------------------------------------------------------------------
(* Properties.  `last` is the record of the latest completed call, and      *)
(* last.prior the record of the evaluate call that came before it for the    *)
(* same camera.                                                              *)

\* the latest call ran MotionDetector.detect
Evaluated ==
    \/ last.op = "detect_motion_only"
    \/ last.op = "detect" /\ ~last.skip

\* the model id of the latest call is listed by no registered backend
Unlisted == \A b \in detectors : last.model \notin models[b]

\* the evaluate calls in which the detection method itself reported motion
MethodMotion == {"first", "resized", "motion"}

\* C1: a detect call with skip_motion_check false in which the motion gate
\* reports no motion returns ([], False) and does nothing with any backend:
\* it makes no get_models() scan and no backend detect.
C1_NoMotionTouchesNoBackend ==
    (last.op = "detect" /\ ~last.skip /\ last.gate = "nomotion")
    => /\ last.outcome = "no_motion"
       /\ last.ok
       /\ ~last.motion
       /\ last.scans = 0
       /\ last.invoked = <<>>

\* a gated detect on a loaded model was answered without inference
C1_Witness ==
    /\ last.op = "detect" /\ ~last.skip /\ last.gate = "nomotion"
    /\ last.how = "below"
    /\ ~Unlisted

\* C2: a failure raised inside MotionDetector.detect is turned into
\* (True, []) and not raised to the caller; a detect call whose gate failed
\* goes on to scan for the model and, when a backend lists it, to invoke that
\* backend.
C2_GateFailureFailsOpen ==
    (Evaluated /\ last.how = "error")
    => /\ last.motion
       /\ last.gate = "motion"
       /\ last.regions = {}
       /\ last.op = "detect"
          => /\ last.outcome \in {"ok", "InferenceError", "ModelNotFound"}
             /\ last.scans >= 1
             /\ (~Unlisted => last.invoked = <<FindOwner(last.model)>>)
             /\ (Unlisted => last.outcome = "ModelNotFound")

\* the gate failed inside a detect call and the backend was still invoked
C2_Witness ==
    /\ last.op = "detect" /\ ~last.skip /\ last.how = "error"
    /\ last.outcome = "ok"
    /\ last.invoked # <<>>

SameFrameTwice ==
    /\ Evaluated
    /\ config.enabled /\ config.method = "frame_diff"
    /\ last.prior.seq > 0 /\ last.prior.seq + 1 = nops
    /\ last.prior.fresh
    /\ last.frame # <<>>
    /\ last.prior.frame = last.frame

\* C4 as stated: with gating enabled and frame_diff, the same frame submitted
\* twice in a row for one camera gives (True, []) and then (False, []).
C4_Original ==
    SameFrameTwice
    => /\ last.prior.has_motion
       /\ ~last.motion
       /\ last.regions = {}

\* C4: with gating enabled and frame_diff, threshold > 0 and pixel_threshold
\* >= 0, when the same frame is submitted twice in a row for one
\* camera, the first being its warm-up frame and the second coming at least
\* cooldown_ms after the first, the first evaluate returns (True, []) and the
\* second (False, []).
C4_SameFrameAfterCooldown ==
    (/\ SameFrameTwice
     /\ config.threshold > 0 /\ config.pixel_threshold >= 0
     /\ evals[last.camera].at - last.prior.at >= config.cooldown_ms)
    => /\ last.prior.has_motion
       /\ last.prior.how = "first"
       /\ ~last.motion
       /\ last.regions = {}

\* the same frame came again exactly cooldown_ms after the warm-up frame,
\* under the default configuration, and was found static
C4_Witness ==
    /\ SameFrameTwice
    /\ config = DefaultConfig
    /\ last.frame = <<0, 200>>
    /\ evals[last.camera].at - last.prior.at = config.cooldown_ms
    /\ last.how = "below"

\* C5 as stated: two evaluate calls for one camera less than cooldown_ms
\* apart both return has_motion = True.
C5_Original ==
    (/\ Evaluated
     /\ last.prior.seq > 0
     /\ evals[last.camera].at - last.prior.at < config.cooldown_ms)
    => /\ last.prior.has_motion
       /\ last.motion

\* C5: an evaluate call made less than cooldown_ms after an evaluate call for
\* the same camera in which the detection method itself reported motion
\* returns has_motion = True, whatever its frame.
C5_CooldownAfterMotion ==
    (/\ Evaluated
     /\ last.prior.how \in MethodMotion
     /\ evals[last.camera].at - last.prior.at < config.cooldown_ms)
    => /\ last.prior.has_motion
       /\ last.motion

\* the frame that had just been reported as motion came again within the
\* cooldown and was answered from the cooldown
C5_Witness ==
    /\ last.op = "detect_motion_only"
    /\ last.prior.how \in MethodMotion
    /\ evals[last.camera].at - last.prior.at < config.cooldown_ms
    /\ last.prior.frame = last.frame
    /\ last.how = "cooldown"

\* C6: while config.enabled is false every evaluate call returns (True, []),
\* so no detect call is answered as motion-skipped: each goes on to scan for
\* its model.
C6_DisabledGateFailsOpen ==
    (Evaluated /\ ~config.enabled)
    => /\ last.motion
       /\ last.regions = {}
       /\ last.how = "disabled"
       /\ last.op = "detect"
          => /\ last.outcome # "no_motion"
             /\ last.scans >= 1
             /\ (~Unlisted => last.invoked = <<FindOwner(last.model)>>)

\* with gating disabled a gated detect on a loaded model reached the backend
C6_Witness ==
    /\ last.op = "detect" /\ ~last.skip
    /\ ~config.enabled
    /\ last.outcome = "ok"
    /\ last.invoked # <<>>

\* C7: a detect call with skip_motion_check true on a listed model id
\* invokes the detect of the backend that owns it, whatever the camera's
\* motion state, and a call that returns returns motion_detected = True.
C7_SkipAlwaysInvokes ==
    (last.op = "detect" /\ last.skip /\ ~Unlisted)
    => /\ last.invoked = <<FindOwner(last.model)>>
       /\ last.gate = "skipped"
       /\ last.outcome \in {"ok", "InferenceError"}
       /\ (last.outcome = "ok" => last.motion)

\* the backend was invoked on a frame the gate would have reported static
C7_Witness ==
    /\ last.op = "detect" /\ last.skip /\ ~Unlisted
    /\ last.outcome = "ok"
    /\ config.enabled
    /\ ~Evaluate(last.frame, last.camera).has_motion

\* C8 as stated: every detect call whose model id no registered backend
\* lists fails with ModelNotFound, whatever the gate's state and
\* skip_motion_check.
C8_Original ==
    (last.op = "detect" /\ Unlisted) => last.outcome = "ModelNotFound"

\* C8: every detect call that gets past the motion gate (skip_motion_check
\* true, or the gate reporting motion) with a model id no registered backend
\* lists fails with ModelNotFound after scanning every backend and invoking
\* none; a gated call in which the gate reports no motion returns
\* ([], False) instead.
C8_UnlistedPastTheGate ==
    (last.op = "detect" /\ Unlisted)
    => IF last.skip \/ last.gate = "motion"
       THEN /\ last.outcome = "ModelNotFound"
            /\ last.scans = Len(Registered)
            /\ last.invoked = <<>>
       ELSE last.outcome = "no_motion"

\* a detect past the gate failed on an id no backend lists while another
\* model was loaded
C8_Witness ==
    /\ last.op = "detect" /\ Unlisted
    /\ last.gate = "motion"
    /\ last.outcome = "ModelNotFound"
    /\ \E b \in detectors : models[b] # {}

\* C9: after unload_model(id) has returned True no backend lists the id (so
\* every later detect on it that gets past the gate fails with
\* ModelNotFound until it is loaded again), after any sequence of load_model
\* and unload_model calls, caller-chosen ids and backend hints included.
C9_UnloadedIsListedNowhere ==
    (last.op = "unload_model" /\ last.ok)
    => \A b \in Backends : last.model \notin models[b]

\* the worker thread is between its read of a camera's previous frame or
\* background model and its write of the new one
InReadModifyWrite(t) == th[t].pc \in {"fd_store", "bg_create", "bg_learn"}

\* C10: updates to one camera's motion state are mutually exclusive: two
\* concurrent evaluate calls for one camera are never both between the read
\* of its previous frame (or background model) and the write of the new one.
C10_CameraStateExclusive ==
    \A t1, t2 \in Threads :
        (t1 # t2 /\ th[t1].camera = th[t2].camera)
        => ~(InReadModifyWrite(t1) /\ InReadModifyWrite(t2))

\* C15: one detect call invokes the backend's detect at most once; when the
\* backend's detect raises, the call fails with that error after the one
\* invocation, and a call that returns has invoked the backend exactly once.
C15_NoRetry ==
    last.op = "detect"
    => /\ Len(last.invoked) <= 1
       /\ (last.outcome = "InferenceError"
           => ~last.ok /\ last.invoked = <<last.backend>>)
       /\ (last.outcome = "ok" => last.invoked = <<last.backend>>)
       /\ (last.outcome \in {"no_motion", "ModelNotFound"} => last.invoked = <<>>)

\* a backend's detect raised, after one invocation, and the call failed
C15_Witness ==
    /\ last.op = "detect"
    /\ last.outcome = "InferenceError"
    /\ last.invoked = <<last.backend>>
    /\ stats.error_count >= 1

\* the backend a model file's name alone stands for: the one its suffix
\* names, or for any other name the default backend
NamedByPath(path) ==
    IF path[2] = ".engine" THEN "nvidia"
    ELSE IF path[2] = "_edgetpu.tflite" THEN "coral"
    ELSE IF path[2] \in {".mlpackage", ".mlmodel"} THEN "coreml"
    ELSE IF path[2] \in {".xml", ".bin"} THEN "openvino"
    ELSE default_backend

\* the latest step was a load_model call
LoadStep == last'.op = "load_model" /\ nops' = nops + 1

\* C16: load_model without a backend resolves the backend from the file
\* name alone: a successful load goes to the backend the name stands for,
\* and when that backend is not registered the call fails with "No suitable
\* backend", loads nothing, and does not fall back on the default or any
\* other registered backend.
C16_NoFallbackFromPattern ==
    [][(LoadStep /\ last'.hint = NoBackend)
       => /\ last'.ok => last'.backend = NamedByPath(last'.path)
          /\ NamedByPath(last'.path) \notin detectors
             => /\ last'.outcome = "NoSuitableBackend"
                /\ models' = models
                /\ sessions' = sessions]_vars

\* "x.engine" was refused with the NVIDIA backend unregistered while a
\* default backend existed
C16_Witness ==
    /\ last.op = "load_model" /\ last.hint = NoBackend
    /\ last.path = <<"x", ".engine">>
    /\ "nvidia" \notin detectors
    /\ default_backend \in detectors
    /\ last.outcome = "NoSuitableBackend"

\* C17: load_model with a backend that is not registered fails with
\* "Backend not available", hands the load to no backend (the file name is
\* not consulted) and leaves every backend's model list unchanged.
C17_UnavailableHintFails ==
    [][(LoadStep /\ last'.hint # NoBackend /\ last'.hint \notin detectors)
       => /\ last'.outcome = "BackendUnavailable"
          /\ last'.backend = NoBackend
          /\ models' = models
          /\ sessions' = sessions]_vars

\* a load naming the unregistered Coral backend was refused although the
\* file name alone would have found a registered backend
C17_Witness ==
    /\ last.op = "load_model"
    /\ last.hint = "coral" /\ "coral" \notin detectors
    /\ NamedByPath(last.path) \in detectors
    /\ last.outcome = "BackendUnavailable"

\* the priority order of the default backend
DefaultPriority == <<"onnx", "nvidia", "openvino", "coreml">>

\* C18: after startup probing the default backend is the first available
\* one in the order ONNX, NVIDIA TensorRT, OpenVINO, CoreML (none when none
\* of these is available).
C18_DefaultIsFirstAvailable ==
    LET hits == {i \in 1..Len(DefaultPriority) : DefaultPriority[i] \in detectors}
    IN  IF hits = {} THEN default_backend = NoBackend
        ELSE default_backend =
                DefaultPriority[CHOOSE i \in hits : \A j \in hits : i <= j]

\* C19: the Coral backend is registered when available but is never the
\* default backend: when it is the only backend there is no default, and a
\* load without a backend of a file whose name selects no backend fails
\* with "No suitable backend"; a Coral model file is still loaded on it.
C19_CoralNeverDefault ==
    /\ default_backend # "coral"
    /\ detectors = {"coral"} => default_backend = NoBackend
    /\ (last.op = "load_model" /\ last.hint = NoBackend /\ detectors = {"coral"})
       => IF last.path[2] = "_edgetpu.tflite"
          THEN last.outcome \in {"ok", "LoadError"} /\ last.backend = "coral"
          ELSE last.outcome = "NoSuitableBackend"

\* with Coral the only backend, an .onnx file was refused
C19_Witness ==
    /\ detectors = {"coral"}
    /\ default_backend = NoBackend
    /\ last.op = "load_model" /\ last.hint = NoBackend
    /\ last.path = <<"m", ".onnx">>
    /\ last.outcome = "NoSuitableBackend"

\* C13: every counter of ServiceStats and MotionStats (processed, errors,
\* frames processed, motion detected, motion skipped) never decreases, in any
\* interleaving of concurrent calls.
C13_CountersMonotonic ==
    [][/\ stats'.processed_count >= stats.processed_count
       /\ stats'.error_count >= stats.error_count
       /\ mstats'.frames_processed >= mstats.frames_processed
       /\ mstats'.motion_detected_count >= mstats.motion_detected_count
       /\ mstats'.motion_skipped_count >= mstats.motion_skipped_count]_vars

\* what the detector holds for a camera
CameraState(c) == <<prev_frames[c], bg_subtractors[c], last_motion_times[c]>>

\* C20: reset(camera_id) removes the previous frame, background model and
\* cooldown timestamp of exactly that camera and leaves every other camera's
\* unchanged, for every camera_id given, the empty string included.
C20_ResetExactlyOne ==
    [][(last'.op = "reset_motion" /\ nops' = nops + 1 /\ last'.camera # NoCamera)
       => \A c \in Cameras :
             IF c = last'.camera
             THEN CameraState(c)' = <<NoFrame, NoModel, 0>>
             ELSE CameraState(c)' = CameraState(c)]_vars

\* what the worker threads' calls have seen so far
RECURSIVE Tally(_, _)
Tally(S, field) ==
    IF S = {} THEN 0
    ELSE LET t == CHOOSE x \in S : TRUE
         IN  th[t][field] + Tally(S \ {t}, field)

Pending(pc) == Cardinality({t \in Threads : th[t].pc = pc})

AllIdle == \A t \in Threads : th[t].pc = "idle"

\* C11: loading and unloading exclude a concurrent detect's scan for the
\* owner: a detect that has resolved an owner never finds the model gone
\* when it invokes that backend (no "model not loaded" failure)
C11_ResolvedOwnerHoldsModel ==
    \A t \in Threads : /\ th[t].how # "ModelNotLoaded"
                       /\ th[t].ret.how # "ModelNotLoaded"

\* C12: the service counters are atomic: processed_count is the number of
\* calls whose backend detect returned, error_count the number of calls that
\* failed, each counted once the call has passed its locked increment; a
\* call skipped for lack of motion changes neither
C12_CountersMatchCalls ==
    /\ stats.processed_count + Pending("sv_ok") = Tally(Threads, "succeeded")
    /\ stats.error_count + Pending("sv_err") = Tally(Threads, "failed")

C12_Witness ==
    /\ AllIdle
    /\ \A t \in Threads : th[t].succeeded = 1
    /\ Tally(Threads, "skipped") >= 1
    /\ stats.processed_count = 2


\* the camera of the evaluate call that thread t is in before or after a step
EvaluateCamera(t) ==
    IF th[t].op = "evaluate" THEN th[t].camera ELSE th'[t].camera

\* C14: cameras are isolated: in any interleaving of evaluate calls for two
\* cameras, a step of a call for one camera leaves the other camera's previous
\* frame, background model and cooldown timestamp as they were, and the frame
\* it reads is the one stored under its own camera
C14_CamerasIsolated ==
    [][\A t \in Threads :
          (th'[t] # th[t] /\ (th[t].op = "evaluate" \/ th'[t].op = "evaluate"))
          => /\ \A c \in Cameras \ {EvaluateCamera(t)} :
                   CameraState(c)' = CameraState(c)
             /\ (th[t].pc = "fd_read" /\ th'[t].pc = "fd_store")
                => th'[t].prev = prev_frames[ThreadCamera[t]]]_vars

C14_Witness ==
    /\ \A t \in Threads : th[t].op = "evaluate" /\ th[t].calls = 1
    /\ th["t1"].camera = "camA" /\ th["t2"].camera = "camB"
    /\ prev_frames["camA"] # NoFrame
    /\ prev_frames["camB"] # NoFrame
    /\ prev_frames["camA"] # prev_frames["camB"]

\* C21: in calls made one at a time, right after a configure that changes
\* the method no camera has a stored previous frame, background model or
\* cooldown timestamp, and every stored background model was created by the
\* method now configured
C21_MethodChangeResets ==
    [][/\ config'.method # config.method
          => \A c \in Cameras : /\ prev_frames'[c] = NoFrame
                                /\ bg_subtractors'[c] = NoModel
                                /\ last_motion_times'[c] = 0
       /\ \A c \in Cameras : bg_subtractors'[c] # NoModel
                             => bg_subtractors'[c].kind = config'.method]_vars

C21_Witness ==
    /\ last.op = "configure_motion" /\ last.ok
    /\ config.method = "knn"
    /\ evals["camA"].how \notin {"none", "error", "disabled"}
    /\ evals["camA"].seq = nops - 1
    /\ \A c \in Cameras : bg_subtractors[c] = NoModel /\ prev_frames[c] = NoFrame

\* an unload_model call has just returned
UnloadStep == last'.op = "unload_model" /\ nops' = nops + 1

\* C22: unloadModel(id) returns true exactly when a registered backend listed
\* the id before the call, and the id is then removed from that owner; for an
\* id no backend lists it returns false, raises nothing and leaves every
\* backend's model list as it was
C22_UnloadReturnsWhetherRemoved ==
    [][UnloadStep =>
          LET id     == last'.model
              listed == {b \in detectors : id \in models[b]}
          IN  /\ last'.ok <=> listed # {}
              /\ last'.outcome = "ok"
              /\ listed # {} => /\ last'.backend \in listed
                                /\ id \notin models'[last'.backend]
                                /\ \A b \in Backends \ {last'.backend} :
                                      models'[b] = models[b]
              /\ listed = {} => models' = models]_vars

C22_Witness ==
    /\ last.op = "unload_model" /\ last.ok
    /\ \A b \in Backends : last.model \notin models[b]

\* a close call has just returned or raised
CloseStep == last'.op = "close" /\ nops' = nops + 1

\* C23: close() closes every registered backend, so that afterwards no
\* backend lists a loaded model, also when one backend's close fails; a second
\* close() after a successful one changes nothing
C23_CloseClosesEveryBackend ==
    [][CloseStep =>
          /\ \A b \in detectors : models'[b] = {}
          /\ (last.op = "close" /\ last.ok /\ last'.ok) => models' = models]_vars

\* an evaluate call has just returned
EvaluateStep == last'.op = "detect_motion_only" /\ nops' = nops + 1

\* the detection method itself ran and reported motion
MethodReportedMotion ==
    last'.motion /\ last'.how \notin {"disabled", "cooldown", "error"}

\* C27: every evaluate call increments frames_processed by exactly one, on
\* every path (gate disabled, cooldown, motion, no motion, internal failure);
\* motion_detected is incremented and last_motion_time set exactly on the calls
\* where the method itself reported motion, motion_skipped on the other calls
C27_EveryCallCounted ==
    [][EvaluateStep =>
          /\ mstats'.frames_processed = mstats.frames_processed + 1
          /\ mstats'.motion_detected_count =
                mstats.motion_detected_count + (IF MethodReportedMotion THEN 1 ELSE 0)
          /\ MethodReportedMotion => mstats'.last_motion_time = now
          /\ mstats'.motion_skipped_count =
                mstats.motion_skipped_count + (IF MethodReportedMotion THEN 0 ELSE 1)]_vars

\* a status call has just returned
StatusStep == last'.op = "get_status" /\ nops' = nops + 1

\* C28: status() is read-only: it changes no counter, no per-camera motion
\* state, no motion configuration and no backend's model list, and the
\* counters it reports are the current values
C28_StatusReadOnly ==
    [][StatusStep =>
          /\ UNCHANGED <<stats, mstats, config, prev_frames, bg_subtractors,
                         last_motion_times, models, sessions>>
          /\ last'.report.processed_count = stats.processed_count
          /\ last'.report.error_count = stats.error_count
          /\ last'.report.frames_processed = mstats.frames_processed
          /\ last'.report.motion_detected = mstats.motion_detected_count
          /\ last'.report.motion_skipped = mstats.motion_skipped_count
          /\ last'.report.models = UNION {models[b] : b \in detectors}]_vars

C28_Witness ==
    /\ last.op = "get_status"
    /\ last.report.processed_count = 1
    /\ last.report.frames_processed = 1
    /\ last.report.models # {}
    /\ prev_frames["camA"] # NoFrame

\* C30: under frame_diff, an evaluate call that reaches the method leaves the
\* camera's stored previous frame equal to the current preprocessed frame on
\* each outcome: no previous frame, size mismatch, below threshold, motion
C30_FrameDiffAlwaysStores ==
    [][(EvaluateStep /\ config.method = "frame_diff"
        /\ last'.how \in {"first", "resized", "below", "motion"})
       => /\ prev_frames'[last'.camera] = Preprocess(last'.frame).gray
          /\ last'.how = "first" <=> prev_frames[last'.camera] = NoFrame
          /\ last'.how = "resized"
             => Len(prev_frames[last'.camera]) # Len(prev_frames'[last'.camera])]_vars

C30_Witness ==
    /\ last.op = "detect_motion_only" /\ last.how = "below"
    /\ last.prior.how = "first"
    /\ prev_frames[last.camera] = Preprocess(last.frame).gray
    /\ config.method = "frame_diff"

\* the ratio r is below, or at least, pct percent
RatioBelow(r, pct) == r.num * 100 < pct * r.den

\* C24: for every list of detections and every threshold, nms returns a list no
\* longer than its input, made of input detections only, with no two members
\* of IoU >= the threshold, and containing the highest-confidence input
C24_NmsGuarantees ==
    post.op = "nms" =>
       /\ Len(post.out) <= Len(post.dets)
       /\ \A i \in 1..Len(post.out) : \E j \in 1..Len(post.dets) :
             post.out[i] = post.dets[j]
       /\ \A i \in 1..Len(post.out), j \in 1..Len(post.out) :
             i < j => RatioBelow(ComputeIou(post.out[i].bbox, post.out[j].bbox),
                                 post.thr)
       /\ \A j \in 1..Len(post.dets) : \E i \in 1..Len(post.out) :
             post.out[i].confidence >= post.dets[j].confidence

C24_Witness ==
    /\ post.op = "nms" /\ post.thr = NmsIouThresholdPct
    /\ Len(post.dets) = 3 /\ Len(post.out) = 2
    /\ post.dets[1].confidence < post.dets[2].confidence
    /\ \A j \in 1..2 : post.out[j] # post.dets[1]
    /\ post.out[1].confidence = post.out[2].confidence

\* the boxes share no area
Disjoint(a, b) ==
    \/ a.x + a.width <= b.x \/ b.x + b.width <= a.x
    \/ a.y + a.height <= b.y \/ b.y + b.height <= a.y

\* C25: for all boxes A and B that decoding can return, iou(A, A) = 1,
\* iou(A, B) = 0 when A and B do not overlap, and iou(A, B) = iou(B, A)
C25_IouLaws ==
    post.op = "iou" =>
       /\ post.aa.num = post.aa.den
       /\ Disjoint(post.a, post.b) => post.ab.num = 0
       /\ post.ab.num * post.ba.den = post.ba.num * post.ab.den

\* C26: decoding never returns a detection whose clamped width or height is
\* <= 0, in the generic path and in the YOLOv8/11/12 path alike
C26_NoEmptyBoxDecoded ==
    post.op = "decode" =>
       \A i \in 1..Len(post.out) : /\ post.out[i].bbox.width > 0
                                   /\ post.out[i].bbox.height > 0

\* the labels are the same up to the case of their letters
SameButCase(l1, l2) ==
    /\ Len(l1) = Len(l2)
    /\ \A i \in 1..Len(l1) :
          \/ l1[i] = l2[i]
          \/ \E k \in 1..Len(UpperCase) : {l1[i], l2[i]} = {UpperCase[k], LowerCase[k]}

Listed(label, table) == \E entry \in table : SameButCase(label, entry)

\* C29: classify maps every label, compared without regard to case, to one
\* of the seven categories by a fixed table: "Person" is a person,
\* "skateboard" is unknown, and labels that differ only in case agree
C29_ClassifyByTable ==
    post.op = "classify" =>
       /\ post.category =
             IF Listed(post.label, LabelTable.person) THEN "person"
             ELSE IF Listed(post.label, LabelTable.vehicle) THEN "vehicle"
             ELSE IF Listed(post.label, LabelTable.animal) THEN "animal"
             ELSE IF Listed(post.label, LabelTable.face) THEN "face"
             ELSE IF Listed(post.label, LabelTable.license_plate) THEN "license_plate"
             ELSE IF Listed(post.label, LabelTable.package) THEN "package"
             ELSE "unknown"
       /\ post.label = <<"P", "e", "r", "s", "o", "n">> => post.category = "person"
       /\ post.label = <<"s", "k", "a", "t", "e", "b", "o", "a", "r", "d">> => post.category = "unknown"
       /\ \A other \in Labels :
             SameButCase(post.label, other)
             => ClassifyObjectType(other) = post.category

C29_Witness ==
    /\ post.op = "classify"
    /\ post.label = <<"P", "e", "r", "s", "o", "n">>
    /\ post.category = "person"

\* C31: an evaluate answered from the cooldown returns (True, []) and leaves
\* every camera's cooldown timestamp, stored previous frame and background
\* model as they were; and with gating enabled, an evaluate made when at least
\* cooldown_ms have passed since the camera's cooldown timestamp is not
\* answered from the cooldown: the detection method runs
C31_CooldownDoesNotExtend ==
    [][EvaluateStep =>
          /\ last'.how = "cooldown"
             => /\ last'.motion /\ last'.regions = {}
                /\ UNCHANGED <<prev_frames, bg_subtractors, last_motion_times>>
                /\ now - last_motion_times[last'.camera] < config.cooldown_ms
          /\ (/\ config.enabled
              /\ now - last_motion_times[last'.camera] >= config.cooldown_ms)
             => last'.how \notin {"cooldown", "disabled"}]_vars

\* a frame came during the cooldown and was answered from it; the next one
\* came exactly cooldown_ms after the motion and went through the method
C31_Witness ==
    /\ last.op = "detect_motion_only"
    /\ last.prior.how = "cooldown"
    /\ last.how \in {"below", "motion", "resized"}
    /\ config.cooldown_ms = DefaultCooldownMs
    /\ now - (StartTime + DefaultCooldownMs) = 0

\* detection i comes before detection j in the order of the greedy reference:
\* higher confidence first, input order among equal confidences
Precedes(dets, i, j) ==
    \/ dets[i].confidence > dets[j].confidence
    \/ dets[i].confidence = dets[j].confidence /\ i < j

\* the positions the greedy reference keeps: a detection is kept exactly when
\* no kept detection before it has an IoU with it of at least the threshold
GreedyKept(dets, thr) ==
    CHOOSE K \in SUBSET (1..Len(dets)) :
        \A i \in 1..Len(dets) :
            i \in K <=> ~\E j \in K :
                            /\ Precedes(dets, j, i)
                            /\ ~RatioBelow(ComputeIou(dets[j].bbox, dets[i].bbox), thr)

\* C32: for every input list and threshold, nms returns what the greedy
\* reference keeps, in descending confidence with equal confidences in input
\* order; a detection whose IoU with a kept one equals the threshold is
\* discarded; confidences 0.9 and 0.4 with IoU 0.6 at threshold 0.45 leave
\* only the 0.9 detection
C32_NmsIsGreedyReference ==
    post.op = "nms" =>
       LET K == GreedyKept(post.dets, post.thr)
       IN  /\ Len(post.out) = Cardinality(K)
           /\ \E f \in [1..Len(post.out) -> K] :
                 /\ \A a \in 1..Len(post.out), b \in 1..Len(post.out) :
                       a < b => Precedes(post.dets, f[a], f[b])
                 /\ \A a \in 1..Len(post.out) : post.out[a] = post.dets[f[a]]
           /\ (/\ post.dets = <<Det(1, 0, 4, 4, 40), Det(0, 0, 4, 4, 90)>>
               /\ post.thr = NmsIouThresholdPct)
              => post.out = <<Det(0, 0, 4, 4, 90)>>

\* two detections whose IoU is exactly the threshold: only the more confident
\* one, second in the input, is returned
C32_Witness ==
    /\ post.op = "nms" /\ post.thr = NmsIouThresholdPct
    /\ post.dets = <<Det(0, 0, 3, 3, 60), Det(0, 0, 4, 5, 70)>>
    /\ ComputeIou(post.dets[1].bbox, post.dets[2].bbox) = [num |-> 9, den |-> 20]
    /\ post.out = <<Det(0, 0, 4, 5, 70)>>

\* the box lies inside the unit frame (1 is 2 * InputSize grid units)
InsideFrame(box) ==
    /\ 0 <= box.x /\ box.x <= 2 * InputSize
    /\ 0 <= box.y /\ box.y <= 2 * InputSize
    /\ box.width >= 0 /\ box.height >= 0
    /\ box.x + box.width <= 2 * InputSize
    /\ box.y + box.height <= 2 * InputSize

\* C33: every bounding box decoding returns, in either path and whatever the
\* raw row (centre or size outside the input frame, negative size), has
\* 0 <= x <= 1, 0 <= y <= 1, width >= 0, height >= 0, x + width <= 1 and
\* y + height <= 1, and every returned detection has confidence >=
\* min_confidence
C33_DecodedBoxesInsideFrame ==
    post.op = "decode" =>
       /\ \A i \in 1..Len(post.dets) : /\ InsideFrame(post.dets[i].bbox)
                                       /\ post.dets[i].confidence >= post.min_confidence
       /\ \A i \in 1..Len(post.out) : /\ InsideFrame(post.out[i].bbox)
                                      /\ post.out[i].confidence >= post.min_confidence

\* a row centred right of the frame and a row of negative width, both decoded
\* by the generic path into boxes of no width inside the frame
C33_Witness ==
    /\ post.op = "decode" /\ post.path = "generic"
    /\ post.rows = <<<<6, 2, 2, 2, 80>>, <<2, 2, -2, 2, 70>>>>
    /\ Len(post.out) = 2
    /\ post.out[1].bbox.x = 2 * InputSize /\ post.out[1].bbox.width = 0
    /\ post.out[2].bbox.width = 0

\* C34: when a class filter is supplied to detect, every returned detection
\* has its raw label in the filter (an empty filter list returns no
\* detections), and the result is the list after NMS with the detections of
\* other labels removed
C34_ClassFilterAfterNms ==
    (post.op = "detect" /\ post.classes # NoClasses) =>
       /\ \A i \in 1..Len(post.out) :
             \E k \in 1..Len(post.classes) : post.classes[k] = post.out[i].label
       /\ post.classes = <<>> => post.out = <<>>
       /\ post.out = SelectSeq(post.dets,
                               LAMBDA r : \E k \in 1..Len(post.classes) :
                                             post.classes[k] = r.label)

\* the mask whose foreground fraction the configured method compares with
\* the threshold, for the frame and the camera of the call being made
ComparedMask(image, c) ==
    LET gray == Preprocess(image).gray
        sub  == IF bg_subtractors[c] = NoModel
                THEN CreateSubtractor(config.method, 0) ELSE bg_subtractors[c]
    IN  IF config.method = "frame_diff"
        THEN DiffMask(prev_frames[c], gray)
        ELSE CleanMask(config.method, SubtractorMask(sub, gray))

\* the method gets to compare the frame: gating is enabled, the camera is not
\* in cooldown, nothing fails, and under frame_diff a previous frame of the
\* same size is stored
MethodCompares(image, c) ==
    /\ config.enabled
    /\ now - last_motion_times[c] >= config.cooldown_ms
    /\ ~Preprocess(image).raised
    /\ Len(Preprocess(image).gray) > 0
    /\ config.method = "frame_diff"
       => /\ prev_frames[c] # NoFrame
          /\ Len(prev_frames[c]) = Len(Preprocess(image).gray)

\* C35: evaluate returns has_motion = False only when gating is enabled, the
\* camera is not in cooldown, nothing failed, the method compared the frame
\* (under frame_diff with a stored previous frame of the same size) and the
\* changed or foreground fraction was strictly below config.threshold; in every
\* other situation it returns True
C35_FailOpen ==
    [][EvaluateStep =>
          (~last'.motion
           <=> /\ MethodCompares(last'.frame, last'.camera)
               /\ CountNonZero(ComparedMask(last'.frame, last'.camera)) * 100
                     < config.threshold * Len(ComparedMask(last'.frame, last'.camera)))]_vars

\* a background model found the frame it had learnt static
C35_Witness ==
    /\ last.op = "detect_motion_only" /\ ~last.motion
    /\ config.method \in {"mog2", "knn"}
    /\ last.prior.how = "motion"
    /\ last.prior.frame = last.frame

\* a detect call with skip_motion_check true has just returned or raised
SkippedStep == last'.op = "detect" /\ last'.skip /\ nops' = nops + 1

\* a gated call (detect without skip, or detect_motion_only) is made right
\* after a skipped detect for the same camera, which itself came right after a
\* gated call in which frame_diff stored the camera's frame
GatedAfterSkipped ==
    /\ last.op = "detect" /\ last.skip
    /\ nops' = nops + 1
    /\ last'.op \in {"detect", "detect_motion_only"} /\ ~last'.skip
    /\ last'.camera = last.camera
    /\ config.method = "frame_diff"
    /\ evals[last.camera].seq = nops - 1
    /\ evals[last.camera].how \in {"first", "resized", "below", "motion"}
    /\ last'.how \in {"first", "resized", "below", "motion"}

\* C36: a detect call with skip_motion_check true leaves the motion gate as it
\* was: no camera's stored frame, background model or cooldown timestamp, no
\* motion counter and no record of a gated call changes; so the next gated
\* call for the camera compares with the frame of the last gated call, not with
\* the frame of the skipped call
C36_SkipLeavesGateUnchanged ==
    [][/\ SkippedStep
          => UNCHANGED <<prev_frames, bg_subtractors, last_motion_times,
                         mstats, config>>
       /\ GatedAfterSkipped
          => last'.how =
                CompareFrames(Preprocess(evals[last.camera].frame).gray,
                              Preprocess(last'.frame).gray).how]_vars

\* a gated call stored the camera's frame and a skipped detect then ran
\* inference on another frame: the stored frame and the cooldown timestamp
\* are those of the gated call
C36_Witness ==
    /\ last.op = "detect" /\ last.skip /\ last.outcome = "ok"
    /\ last.frame = <<>>
    /\ evals[last.camera].seq = nops - 1
    /\ evals[last.camera].how = "first"
    /\ prev_frames[last.camera] = Preprocess(evals[last.camera].frame).gray
    /\ last_motion_times[last.camera] = evals[last.camera].at
    /\ mstats.frames_processed = 1

\* C37: in every reachable state a model id is listed by at most one
\* registered backend, after any sequence of load_model calls, the same id
\* passed with different backends or reused while loaded included
C37_UniqueOwner ==
    \A id \in ModelIds : Cardinality({b \in detectors : id \in models[b]}) <= 1

\* a thread is inside a configure call (between its setattr and the end of
\* the reset it triggers)
Configuring == \E t \in Threads : th[t].op = "configure"

\* C38: with configure(method=...) running concurrently with evaluate calls,
\* no evaluate applies a background model created under a method other than
\* the one configured at that moment, and once the configure has finished no
\* camera holds such a model
C38_NoModelOfAnotherMethod ==
    [][/\ \A t \in Threads :
             (th[t].pc = "bg_apply" /\ th'[t].pc = "bg_learn")
             => Held(t).kind = config.method
       /\ ~Configuring'
          => \A c \in Cameras :
                bg_subtractors'[c] # NoModel
                => bg_subtractors'[c].kind = config'.method]_vars

\* a configure call has just returned or raised
ConfigureStep == last'.op = "configure_motion" /\ nops' = nops + 1

\* C39: a configure call that fails because the method value supplied is not
\* one of frame_diff, mog2, knn has changed no field of the motion
\* configuration and reset no per-camera state
C39_ConfigureAllOrNothing ==
    [][(ConfigureStep /\ last'.outcome = "ValueError")
       => UNCHANGED <<config, prev_frames, bg_subtractors, last_motion_times>>]_vars

\* the step removes something the detector held for camera c
Removes(c) ==
    \/ prev_frames[c] # NoFrame /\ prev_frames'[c] = NoFrame
    \/ bg_subtractors[c] # NoModel /\ bg_subtractors'[c] = NoModel
    \/ last_motion_times[c] # 0 /\ last_motion_times'[c] = 0

\* C40: a configure call that leaves the method as it was (none supplied, or
\* the one already configured) leaves every camera's stored previous frame,
\* background model and cooldown timestamp unchanged; per-camera state is
\* removed only by reset or by a configure that switches to another method
C40_SameMethodKeepsState ==
    [][/\ (ConfigureStep /\ config'.method = config.method)
          => UNCHANGED <<prev_frames, bg_subtractors, last_motion_times>>
       /\ (\E c \in Cameras : Removes(c))
          => \/ last'.op = "reset_motion"
             \/ ConfigureStep /\ config'.method # config.method]_vars

====
